---- MODULE Spec2Model ----
(***************************************************************************)
(* Model of the client-side movement pipeline of the contabilidad          *)
(* dashboard (classification, filtering, search, grouping) and of the kind *)
(* resolver of the movements editor.                                       *)
(*                                                                         *)
(* Representation of JavaScript values:                                    *)
(*   - a string is a sequence of characters, each character a one-letter   *)
(*     TLA+ string; the characters that have no ASCII form are the tokens  *)
(*     "e_acute", "E_acute", "i_acute", "I_acute", "comb_acute" (U+0301),  *)
(*     "nbsp" (U+00A0), "tab", "euro" and "dash" (U+2014);                 *)
(*   - null / undefined of a string field is Null;                         *)
(*   - a number | null field is <<>> for null and <<n>> for the number n;  *)
(*     amounts are whole numbers;                                          *)
(*   - the fijo field is a record [t, v]: its JavaScript type and the      *)
(*     text String(value) gives.                                           *)
(***************************************************************************)
EXTENDS Integers, Sequences, FiniteSets, TLC

VARIABLES
    store,                     \* remote store: movimientos rows of the book
    selectedYear,
    movimientos,               \* DashboardPage: useState<Movimiento[]>
    movimientosError,
    yearlyMovimientos,         \* DashboardPage: full history
    showYearlyIngresos,
    showYearlyGastos,
    showYearlyFijos,
    showYearlyVariables,
    selectedYearlyYear,
    selectedYearlyCategory,
    selectedYearlyDetail,
    showIngresosFijos,
    showIngresosVariables,
    showGastosFijos,
    showGastosVariables,
    selectedIngresosCategory,
    selectedGastosCategory,
    searchIngresos,
    searchGastos,
    groupIngresosByCategory,
    groupIngresosByDetail,
    groupGastosByCategory,
    groupGastosByDetail,
    sortIngresos,              \* SortState of the income card
    sortGastos,                \* SortState of the expense card
    showChartFijos,
    showChartVariables,
    selectedSegment,           \* <<>> for null, <<segment>> otherwise
    editorCategorias,          \* MovimientosClient: useState<Categoria[]>
    editorMovimientos,         \* MovimientosClient: useState<Movimiento[]>
    storeCategorias,           \* remote store: the categorias table
    pendingYears,              \* loadYears calls awaiting their response
    pendingMovimientos,        \* loadMovimientos calls awaiting theirs
    pendingYearly,             \* loadYearlyMovimientos calls awaiting theirs
    editingCell,               \* MovimientosClient: <<>> or <<[id, field]>>
    editingValue,
    editSaving,
    editError,
    pendingUpdates             \* update calls of commitEdit awaiting theirs

vars == <<store, selectedYear, movimientos, movimientosError,
          yearlyMovimientos, showYearlyIngresos, showYearlyGastos,
          showYearlyFijos, showYearlyVariables, selectedYearlyYear,
          selectedYearlyCategory, selectedYearlyDetail, showIngresosFijos,
          showIngresosVariables, showGastosFijos, showGastosVariables,
          selectedIngresosCategory, selectedGastosCategory, searchIngresos,
          searchGastos, groupIngresosByCategory, groupIngresosByDetail,
          groupGastosByCategory, groupGastosByDetail, sortIngresos,
          sortGastos, showChartFijos, showChartVariables, selectedSegment,
          editorCategorias, editorMovimientos,
          storeCategorias, pendingYears, pendingMovimientos, pendingYearly,
          editingCell, editingValue, editSaving, editError, pendingUpdates>>

-----------------------------------------------------------------------------
(* Bounds *)

MaxKindMovs == 1
MaxMovs == 2
MaxYearlyMovs == 1
MaxEditorMovs == 1

-----------------------------------------------------------------------------
(* JavaScript values *)

Null == <<"NULL">>

NoNum == <<>>

Num(n) == <<n>>

JsTrue == [t |-> "boolean", v |-> <<"t", "r", "u", "e">>]

JsFalse == [t |-> "boolean", v |-> <<"f", "a", "l", "s", "e">>]

JsNull == [t |-> "null", v |-> <<>>]

\* value ?? fallback, for a string field
Coalesce(value, fallback) == IF value = Null THEN fallback ELSE value

\* Number(value ?? 0), for a number | null field
NumberOr0(value) == IF value = NoNum THEN 0 ELSE value[1]

\* Math.abs
Abs(n) == IF n < 0 THEN -n ELSE n

UpperLetters ==
    <<"A", "B", "C", "D", "E", "F", "G", "H", "I", "J", "K", "L", "M",
      "N", "O", "P", "Q", "R", "S", "T", "U", "V", "W", "X", "Y", "Z">>

LowerLetters ==
    <<"a", "b", "c", "d", "e", "f", "g", "h", "i", "j", "k", "l", "m",
      "n", "o", "p", "q", "r", "s", "t", "u", "v", "w", "x", "y", "z">>

LowerChar(c) ==
    IF \E i \in 1..26 : UpperLetters[i] = c
    THEN LowerLetters[CHOOSE i \in 1..26 : UpperLetters[i] = c]
    ELSE IF c = "E_acute" THEN "e_acute"
    ELSE IF c = "I_acute" THEN "i_acute"
    ELSE c

\* String.prototype.toLowerCase
toLowerCase(s) == [i \in 1..Len(s) |-> LowerChar(s[i])]

\* the characters matched by \s and removed by trim()
IsSpace(c) == c \in {" ", "tab", "nbsp"}

RECURSIVE trimStart(_)
trimStart(s) ==
    IF s # <<>> /\ IsSpace(Head(s)) THEN trimStart(Tail(s)) ELSE s

RECURSIVE trimEnd(_)
trimEnd(s) ==
    IF s # <<>> /\ IsSpace(s[Len(s)])
    THEN trimEnd(SubSeq(s, 1, Len(s) - 1))
    ELSE s

\* String.prototype.trim
trim(s) == trimEnd(trimStart(s))

\* String.prototype.includes
includes(s, sub) ==
    \E i \in 0..(Len(s) - Len(sub)) : SubSeq(s, i + 1, i + Len(sub)) = sub

\* canonical decomposition of one character
DecomposeChar(c) ==
    IF c = "e_acute" THEN <<"e", "comb_acute">>
    ELSE IF c = "E_acute" THEN <<"E", "comb_acute">>
    ELSE IF c = "i_acute" THEN <<"i", "comb_acute">>
    ELSE IF c = "I_acute" THEN <<"I", "comb_acute">>
    ELSE <<c>>

\* String.prototype.normalize("NFD")
RECURSIVE normalizeNFD(_)
normalizeNFD(s) ==
    IF s = <<>> THEN <<>>
    ELSE DecomposeChar(Head(s)) \o normalizeNFD(Tail(s))

\* the range U+0300..U+036F
IsCombining(c) == c = "comb_acute"

NotCombining(c) == ~IsCombining(c)

-----------------------------------------------------------------------------
(* Texts *)

T_ingreso == <<"i", "n", "g", "r", "e", "s", "o">>

T_gasto == <<"g", "a", "s", "t", "o">>

T_ingres == <<"i", "n", "g", "r", "e", "s">>

T_income == <<"i", "n", "c", "o", "m", "e">>

T_entrada == <<"e", "n", "t", "r", "a", "d", "a">>

T_abono == <<"a", "b", "o", "n", "o">>

T_gast == <<"g", "a", "s", "t">>

T_expense == <<"e", "x", "p", "e", "n", "s", "e">>

T_salida == <<"s", "a", "l", "i", "d", "a">>

T_cargo == <<"c", "a", "r", "g", "o">>

T_sinCategoria ==
    <<"S", "i", "n", " ", "c", "a", "t", "e", "g", "o", "r", "i_acute", "a">>

T_todas == <<"t", "o", "d", "a", "s">>

T_todos == <<"t", "o", "d", "o", "s">>

T_sinDetalle == <<"S", "i", "n", " ", "d", "e", "t", "a", "l", "l", "e">>

T_dash == <<"dash">>

T_Varias == <<"V", "a", "r", "i", "a", "s">>

-----------------------------------------------------------------------------
(* Kind resolver *)

normalizeKindLabel(value) ==
    LET tipo == trim(toLowerCase(Coalesce(value, <<>>)))
    IN  IF tipo = <<>> THEN Null
        ELSE IF \/ includes(tipo, T_ingres)
                \/ includes(tipo, T_income)
                \/ includes(tipo, T_entrada)
                \/ includes(tipo, T_abono)
        THEN T_ingreso
        ELSE IF \/ includes(tipo, T_gast)
                \/ includes(tipo, T_expense)
                \/ includes(tipo, T_salida)
                \/ includes(tipo, T_cargo)
        THEN T_gasto
        ELSE IF tipo = <<"i">> THEN T_ingreso
        ELSE IF tipo = <<"g">> THEN T_gasto
        ELSE Null

\* resolveKind with a fault: the category kind is consulted before the tipo
resolveKind_catFirst(mov) ==
    LET categoryKind == normalizeKindLabel(mov.categoria_kind)
        tipoKind == normalizeKindLabel(mov.tipo)
    IN  IF categoryKind # Null THEN categoryKind
        ELSE IF tipoKind # Null THEN tipoKind
        ELSE IF NumberOr0(mov.importe) < 0 THEN T_gasto ELSE T_ingreso

\* DashboardPage's resolveKind
resolveKind(mov) ==
    LET tipoKind == normalizeKindLabel(mov.tipo)
        categoryKind == normalizeKindLabel(mov.categoria_kind)
        amount == NumberOr0(mov.importe)
    IN  IF tipoKind # Null THEN tipoKind
        ELSE IF categoryKind # Null THEN categoryKind
        ELSE IF amount < 0 THEN T_gasto ELSE T_ingreso

\* MovimientosClient's resolveKind
resolveKind_editor(mov) ==
    LET tipoKind == normalizeKindLabel(mov.tipo)
        categoryKind == normalizeKindLabel(mov.categoria_kind)
    IN  IF tipoKind # Null THEN tipoKind
        ELSE IF categoryKind # Null THEN categoryKind
        ELSE Null

-----------------------------------------------------------------------------
(* Category records: an open key/value record is the sequence of its       *)
(* entries in Object.entries order; an entry is [key, t, s, b]: its key,   *)
(* the typeof of its value, and the value (s when a string, b when a       *)
(* boolean).                                                               *)

StrEntry(key, s) == [key |-> key, t |-> "string", s |-> s, b |-> FALSE]

BoolEntry(key, b) == [key |-> key, t |-> "boolean", s |-> <<>>, b |-> b]

NullEntry(key) == [key |-> key, t |-> "object", s |-> <<>>, b |-> FALSE]

\* typeof categoria[key] === t
HasTyped(categoria, key, t) ==
    \E i \in 1..Len(categoria) : categoria[i].key = key /\ categoria[i].t = t

Entry(categoria, key) ==
    categoria[CHOOSE i \in 1..Len(categoria) : categoria[i].key = key]

K_tipo == <<"t", "i", "p", "o">>

K_kind == <<"k", "i", "n", "d">>

K_mov == <<"m", "o", "v">>

K_es_gasto == <<"e", "s", "_", "g", "a", "s", "t", "o">>

K_esGasto == <<"e", "s", "G", "a", "s", "t", "o">>

K_es_ingreso == <<"e", "s", "_", "i", "n", "g", "r", "e", "s", "o">>

K_esIngreso == <<"e", "s", "I", "n", "g", "r", "e", "s", "o">>

K_id == <<"i", "d">>

K_nombre == <<"n", "o", "m", "b", "r", "e">>

\* the entries the first loop of resolveCategoryKind returns from
KindTextEntry(e) ==
    /\ e.t = "string"
    /\ \/ includes(toLowerCase(e.key), K_tipo)
       \/ includes(toLowerCase(e.key), K_kind)
       \/ includes(toLowerCase(e.key), K_mov)
    /\ normalizeKindLabel(e.s) # Null

\* the entries the last loop of resolveCategoryKind returns from
KindFlagEntry(e) ==
    /\ e.t = "boolean"
    /\ \/ includes(toLowerCase(e.key), T_gasto)
       \/ includes(toLowerCase(e.key), T_ingreso)

\* resolveCategoryKind with a fault: the boolean es_gasto is consulted first
resolveCategoryKind_flagFirst(categoria) ==
    LET tipo == IF HasTyped(categoria, K_tipo, "string")
                THEN Entry(categoria, K_tipo).s ELSE Null
        kindFromTipo == normalizeKindLabel(tipo)
        texts == SelectSeq(categoria, KindTextEntry)
    IN  IF HasTyped(categoria, K_es_gasto, "boolean")
        THEN (IF Entry(categoria, K_es_gasto).b THEN T_gasto ELSE T_ingreso)
        ELSE IF kindFromTipo # Null THEN kindFromTipo
        ELSE IF texts # <<>> THEN normalizeKindLabel(texts[1].s)
        ELSE Null

resolveCategoryKind(categoria) ==
    LET tipo == IF HasTyped(categoria, K_tipo, "string")
                THEN Entry(categoria, K_tipo).s ELSE Null
        kindFromTipo == normalizeKindLabel(tipo)
        texts == SelectSeq(categoria, KindTextEntry)
        flags == SelectSeq(categoria, KindFlagEntry)
    IN  IF kindFromTipo # Null THEN kindFromTipo
        ELSE IF texts # <<>> THEN normalizeKindLabel(texts[1].s)
        ELSE IF HasTyped(categoria, K_es_gasto, "boolean")
        THEN (IF Entry(categoria, K_es_gasto).b THEN T_gasto ELSE T_ingreso)
        ELSE IF HasTyped(categoria, K_esGasto, "boolean")
        THEN (IF Entry(categoria, K_esGasto).b THEN T_gasto ELSE T_ingreso)
        ELSE IF HasTyped(categoria, T_gasto, "boolean")
        THEN (IF Entry(categoria, T_gasto).b THEN T_gasto ELSE T_ingreso)
        ELSE IF HasTyped(categoria, K_es_ingreso, "boolean")
        THEN (IF Entry(categoria, K_es_ingreso).b THEN T_ingreso ELSE T_gasto)
        ELSE IF HasTyped(categoria, K_esIngreso, "boolean")
        THEN (IF Entry(categoria, K_esIngreso).b THEN T_ingreso ELSE T_gasto)
        ELSE IF HasTyped(categoria, T_ingreso, "boolean")
        THEN (IF Entry(categoria, T_ingreso).b THEN T_ingreso ELSE T_gasto)
        ELSE IF flags # <<>>
        THEN (IF includes(toLowerCase(flags[1].key), T_gasto)
              THEN (IF flags[1].b THEN T_gasto ELSE T_ingreso)
              ELSE (IF flags[1].b THEN T_ingreso ELSE T_gasto))
        ELSE Null

-----------------------------------------------------------------------------
(* Dates.  A fecha is a text; Date.parse gives <<>> for NaN and <<d>> for  *)
(* a valid date-only ISO text "YYYY-MM-DD", where d counts whole days from *)
(* 1970-01-01 (the timestamp in units of 86400000 ms: a date-only text     *)
(* parses to UTC midnight).                                                *)

Digits == <<"0", "1", "2", "3", "4", "5", "6", "7", "8", "9">>

IsDigit(c) == \E i \in 1..10 : Digits[i] = c

DigitValue(c) == (CHOOSE i \in 1..10 : Digits[i] = c) - 1

RECURSIVE DigitsValue(_)
DigitsValue(s) ==
    IF s = <<>> THEN 0
    ELSE 10 * DigitsValue(SubSeq(s, 1, Len(s) - 1)) + DigitValue(s[Len(s)])

AllDigits(s) == \A i \in 1..Len(s) : IsDigit(s[i])

IsLeap(y) == (y % 4 = 0 /\ y % 100 # 0) \/ y % 400 = 0

DaysInMonth(y, m) ==
    IF m = 2 THEN (IF IsLeap(y) THEN 29 ELSE 28)
    ELSE IF m \in {4, 6, 9, 11} THEN 30 ELSE 31

\* days from 1970-01-01 to the civil date y-m-d
DaysFromCivil(y, m, d) ==
    LET yy == IF m <= 2 THEN y - 1 ELSE y
        era == yy \div 400
        yoe == yy - era * 400
        mp == IF m > 2 THEN m - 3 ELSE m + 9
        doy == (153 * mp + 2) \div 5 + d - 1
        doe == yoe * 365 + yoe \div 4 - yoe \div 100 + doy
    IN  era * 146097 + doe - 719468

IsIsoDate(s) ==
    /\ Len(s) = 10
    /\ s[5] = "-" /\ s[8] = "-"
    /\ AllDigits(SubSeq(s, 1, 4))
    /\ AllDigits(SubSeq(s, 6, 7))
    /\ AllDigits(SubSeq(s, 9, 10))
    /\ DigitsValue(SubSeq(s, 6, 7)) \in 1..12
    /\ DigitsValue(SubSeq(s, 9, 10)) >= 1
    /\ DigitsValue(SubSeq(s, 9, 10)) <=
           DaysInMonth(DigitsValue(SubSeq(s, 1, 4)),
                       DigitsValue(SubSeq(s, 6, 7)))

\* Date.parse
DateParse(s) ==
    IF s # Null /\ IsIsoDate(s)
    THEN <<DaysFromCivil(DigitsValue(SubSeq(s, 1, 4)),
                         DigitsValue(SubSeq(s, 6, 7)),
                         DigitsValue(SubSeq(s, 9, 10)))>>
    ELSE <<>>

\* the year the store compares in .gte("fecha", start).lte("fecha", end)
FechaYear(s) == DigitsValue(SubSeq(s, 1, 4))

-----------------------------------------------------------------------------
(* The remote store: the movimientos rows of the selected book and the     *)
(* categorias table.                                                       *)

CURRENT_YEAR == 2024

Years == {2023, 2024}

C_1 == <<"c", "1">>

C_2 == <<"c", "2">>

C_3 == <<"c", "3">>

C_4 == <<"c", "4">>

N_Luz == <<"L", "u", "z">>

N_Paga == <<"P", "a", "g", "a">>

N_Ocio == <<"O", "c", "i", "o">>

C_5 == <<"c", "5">>

C_6 == <<"c", "6">>

N_a_b == <<"a", "|", "|", "b">>

N_a == <<"a">>

\* the categorias table of the store
Categorias ==
    << <<StrEntry(K_id, C_1), StrEntry(K_nombre, N_Luz),
         StrEntry(K_tipo, T_gasto)>>,
       <<StrEntry(K_id, C_2), StrEntry(K_nombre, N_Paga),
         StrEntry(K_tipo, <<"I", "n", "g", "r", "e", "s", "o">>)>>,
       <<StrEntry(K_id, C_3), NullEntry(K_nombre),
         BoolEntry(K_es_gasto, TRUE)>>,
       <<StrEntry(K_id, C_4), StrEntry(K_nombre, N_Ocio)>>,
       <<StrEntry(K_id, C_5), StrEntry(K_nombre, N_a_b)>>,
       <<StrEntry(K_id, C_6), StrEntry(K_nombre, N_a)>> >>

\* a row of the movimientos table, as selected by the loaders
RawMov(fecha, tipo, importe, detalle, fijo, categoria_id) ==
    [fecha |-> fecha, tipo |-> tipo, importe |-> importe,
     detalle |-> detalle, fijo |-> fijo, categoria_id |-> categoria_id]

\* sequences over S of length at most n
BoundedSeq(S, n) == UNION {[1..k -> S] : k \in 0..n}

\* the primary key of the i-th row
RowId(i) == <<"m", Digits[i + 1]>>

\* .from("movimientos").select(...).gte("fecha", start).lte("fecha", end)
fetchMovimientos(rows, year) ==
    LET withId == [i \in 1..Len(rows) |->
                     [id |-> RowId(i), fecha |-> rows[i].fecha,
                      tipo |-> rows[i].tipo, importe |-> rows[i].importe,
                      detalle |-> rows[i].detalle, fijo |-> rows[i].fijo,
                      categoria_id |-> rows[i].categoria_id]]
    IN  SelectSeq(withId, LAMBDA r : FechaYear(r.fecha) = year)

\* .from("categorias").select("*").in("id", categoriaIds)
fetchCategorias(categoriaIds) ==
    SelectSeq(storeCategorias,
              LAMBDA c : Entry(c, K_id).s \in categoriaIds)

\* the categoriaIds of a loader: the truthy categoria_id values
categoriaIdsOf(data) ==
    {data[i].categoria_id : i \in 1..Len(data)} \ {Null, <<>>}

\* categoria.nombre ?? null
nombreOf(categoria) ==
    IF HasTyped(categoria, K_nombre, "string")
    THEN Entry(categoria, K_nombre).s ELSE Null

\* the enriched list of loadMovimientos / loadYearlyMovimientos;
\* categoriasData is <<>> when the categorias query failed or was not made
enrich(data, categoriasData) ==
    LET known(id) == \E j \in 1..Len(categoriasData) :
                         Entry(categoriasData[j], K_id).s = id
        \* forEach + Map.set: the last row of an id wins
        cat(id) == categoriasData[
                       CHOOSE j \in 1..Len(categoriasData) :
                           /\ Entry(categoriasData[j], K_id).s = id
                           /\ \A k \in (j + 1)..Len(categoriasData) :
                                  Entry(categoriasData[k], K_id).s # id]
        truthy(id) == id # Null /\ id # <<>>
    IN  [i \in 1..Len(data) |->
           [id |-> data[i].id, fecha |-> data[i].fecha,
            tipo |-> data[i].tipo, importe |-> data[i].importe,
            detalle |-> data[i].detalle, fijo |-> data[i].fijo,
            categoria_id |-> data[i].categoria_id,
            categoria_nombre |->
                IF truthy(data[i].categoria_id) /\ known(data[i].categoria_id)
                THEN nombreOf(cat(data[i].categoria_id)) ELSE Null,
            categoria_kind |->
                IF truthy(data[i].categoria_id) /\ known(data[i].categoria_id)
                THEN resolveCategoryKind(cat(data[i].categoria_id))
                ELSE Null]]

-----------------------------------------------------------------------------
(* Classification and totals *)

RECURSIVE SumSeq(_)
SumSeq(s) == IF s = <<>> THEN 0 ELSE Head(s) + SumSeq(Tail(s))

\* Array.prototype.sort with the comparator (a, b) => key(b) - key(a):
\* descending by key, equal keys keep their order (the sort is stable)
SortDescBy(rows, keys) ==
    LET n == Len(rows)
        before(j, i) == keys[j] > keys[i] \/ (keys[j] = keys[i] /\ j < i)
        rank(i) == Cardinality({j \in 1..n : before(j, i)}) + 1
    IN  [p \in 1..n |-> rows[CHOOSE i \in 1..n : rank(i) = p]]

\* Math.abs(Number(mov.importe ?? 0))
Magnitude(mov) == Abs(NumberOr0(mov.importe))

\* the detailText of movimientoRows
detailTextOf(mov) ==
    IF mov.detalle # Null /\ Len(trim(mov.detalle)) > 0
    THEN trim(mov.detalle) ELSE Null

Classified(mov, kind) ==
    [id |-> mov.id, fecha |-> mov.fecha, tipo |-> mov.tipo,
     importe |-> mov.importe, detalle |-> mov.detalle, fijo |-> mov.fijo,
     categoria_id |-> mov.categoria_id,
     categoria_nombre |-> mov.categoria_nombre,
     categoria_kind |-> mov.categoria_kind,
     kind |-> kind,
     sortValue |-> Abs(NumberOr0(mov.importe)),
     categoryName |-> Coalesce(mov.categoria_nombre, T_sinCategoria),
     detailText |-> detailTextOf(mov)]

\* totals with a fault: a negative amount is added with its sign
totals_signed ==
    LET amount(mov) == NumberOr0(mov.importe)
        part(kind) ==
            SumSeq([i \in 1..Len(movimientos) |->
                      IF resolveKind(movimientos[i]) = kind
                      THEN amount(movimientos[i]) ELSE 0])
    IN  [ingresos |-> part(T_ingreso), gastos |-> part(T_gasto),
         balance |-> part(T_ingreso) - part(T_gasto)]

totals ==
    LET amount(mov) == Abs(NumberOr0(mov.importe))
        \* the movements the forEach does not return early from
        counted(mov) == amount(mov) # 0
        part(kind) ==
            SumSeq([i \in 1..Len(movimientos) |->
                      IF counted(movimientos[i])
                         /\ resolveKind(movimientos[i]) = kind
                      THEN amount(movimientos[i]) ELSE 0])
        ingresos == part(T_ingreso)
        gastos == part(T_gasto)
    IN  [ingresos |-> ingresos, gastos |-> gastos,
         balance |-> ingresos - gastos]

\* movimientoRows with a fault: it skips the movements that totals skips
movimientoRows_skipZero ==
    LET withKind == [i \in 1..Len(movimientos) |->
                       Classified(movimientos[i], resolveKind(movimientos[i]))]
        sorted == SortDescBy(withKind, [i \in 1..Len(withKind) |->
                                          withKind[i].sortValue])
    IN  [ingresos |-> SelectSeq(sorted, LAMBDA mov : /\ mov.kind = T_ingreso
                                                     /\ mov.sortValue # 0),
         gastos |-> SelectSeq(sorted, LAMBDA mov : /\ mov.kind = T_gasto
                                                   /\ mov.sortValue # 0)]

movimientoRows ==
    LET withKind == [i \in 1..Len(movimientos) |->
                       Classified(movimientos[i], resolveKind(movimientos[i]))]
        sorted == SortDescBy(withKind, [i \in 1..Len(withKind) |->
                                          withKind[i].sortValue])
    IN  [ingresos |-> SelectSeq(sorted, LAMBDA mov : mov.kind = T_ingreso),
         gastos |-> SelectSeq(sorted, LAMBDA mov : mov.kind = T_gasto)]

\* app/dashboard/page.tsx: the inline classification of totals and
\* movimientoRows
isIngreso_page(mov) ==
    LET amount == NumberOr0(mov.importe)
        tipo == toLowerCase(Coalesce(mov.tipo, <<>>))
    IN  IF tipo = T_ingreso \/ tipo = T_income THEN TRUE
        ELSE IF tipo = T_gasto \/ tipo = T_expense THEN FALSE
        ELSE amount >= 0

totals_page ==
    LET part(ingreso) ==
            SumSeq([i \in 1..Len(movimientos) |->
                      IF isIngreso_page(movimientos[i]) = ingreso
                      THEN Abs(NumberOr0(movimientos[i].importe)) ELSE 0])
    IN  [ingresos |-> part(TRUE), gastos |-> part(FALSE),
         balance |-> part(TRUE) - part(FALSE)]

movimientoRows_page ==
    LET withKind == [i \in 1..Len(movimientos) |->
                       Classified(movimientos[i],
                                  IF isIngreso_page(movimientos[i])
                                  THEN T_ingreso ELSE T_gasto)]
        sorted == SortDescBy(withKind, [i \in 1..Len(withKind) |->
                                          withKind[i].sortValue])
    IN  [ingresos |-> SelectSeq(sorted, LAMBDA mov : mov.kind = T_ingreso),
         gastos |-> SelectSeq(sorted, LAMBDA mov : mov.kind = T_gasto)]

-----------------------------------------------------------------------------
(* Initial state and the loaders *)

T_error == <<"e", "r", "r", "o", "r">>

\* the categorias table, the calls in flight and the cell under edit: the
\* handlers that run a loader to completion in one step leave them as they
\* are
editVars == <<editingCell, editingValue, editSaving, editError,
              pendingUpdates>>

restVars == <<storeCategorias, pendingYears, pendingMovimientos,
              pendingYearly, editVars>>

yearlyVars == <<yearlyMovimientos, showYearlyIngresos, showYearlyGastos,
                showYearlyFijos, showYearlyVariables, selectedYearlyYear,
                selectedYearlyCategory, selectedYearlyDetail>>

sortVars == <<sortIngresos, sortGastos>>

chartVars == <<showChartFijos, showChartVariables, selectedSegment>>

uiVars == <<showIngresosFijos, showIngresosVariables, showGastosFijos,
            showGastosVariables, selectedIngresosCategory,
            selectedGastosCategory, searchIngresos, searchGastos,
            groupIngresosByCategory, groupIngresosByDetail,
            groupGastosByCategory, groupGastosByDetail, sortVars, chartVars>>

\* the useState initial values
InitClient ==
    /\ selectedYear = CURRENT_YEAR
    /\ movimientos = <<>>
    /\ movimientosError = Null
    /\ yearlyMovimientos = <<>>
    /\ showYearlyIngresos = TRUE
    /\ showYearlyGastos = TRUE
    /\ showYearlyFijos = TRUE
    /\ showYearlyVariables = FALSE
    /\ selectedYearlyYear = T_todos
    /\ selectedYearlyCategory = T_todas
    /\ selectedYearlyDetail = T_todos
    /\ showIngresosFijos = TRUE
    /\ showIngresosVariables = TRUE
    /\ showGastosFijos = TRUE
    /\ showGastosVariables = TRUE
    /\ selectedIngresosCategory = T_todas
    /\ selectedGastosCategory = T_todas
    /\ searchIngresos = <<>>
    /\ searchGastos = <<>>
    /\ groupIngresosByCategory = TRUE
    /\ groupIngresosByDetail = TRUE
    /\ groupGastosByCategory = TRUE
    /\ groupGastosByDetail = TRUE
    /\ sortIngresos = [key |-> "importe", direction |-> "desc"]
    /\ sortGastos = [key |-> "importe", direction |-> "desc"]
    /\ showChartFijos = TRUE
    /\ showChartVariables = TRUE
    /\ selectedSegment = <<>>
    /\ editorCategorias = <<>>
    /\ editorMovimientos = <<>>

\* the page as it starts, over the categorias table of the book
\* no call in flight
NoPending ==
    /\ pendingYears = {}
    /\ pendingMovimientos = {}
    /\ pendingYearly = {}

\* useState of the inline edit: no cell under edit, nothing being saved
NoEdit ==
    /\ editingCell = <<>>
    /\ editingValue = <<>>
    /\ editSaving = FALSE
    /\ editError = Null
    /\ pendingUpdates = <<>>

InitState ==
    InitClient /\ storeCategorias = Categorias /\ NoPending /\ NoEdit

\* the results of the two queries of a loader
Outcomes == {"ok", "error", "categoriasError"}

\* loadMovimientos, run to completion for the given year
loadMovimientos(year, outcome) ==
    LET movimientosData == fetchMovimientos(store, year)
        categoriaIds == categoriaIdsOf(movimientosData)
    IN  \/ /\ outcome = "error"
           /\ movimientosError' = T_error
           /\ movimientos' = <<>>
        \/ /\ outcome = "categoriasError"
           /\ categoriaIds # {}
           /\ movimientosError' = T_error
           /\ movimientos' = enrich(movimientosData, <<>>)
        \/ /\ outcome = "ok"
           /\ movimientosError' = Null
           /\ movimientos' = enrich(movimientosData,
                                    fetchCategorias(categoriaIds))

\* useEffect(loadMovimientos) running again for the same book and year
LoadMovimientos ==
    /\ \E outcome \in Outcomes : loadMovimientos(selectedYear, outcome)
    /\ UNCHANGED <<restVars, store, selectedYear, yearlyVars, uiVars,
                   editorCategorias, editorMovimientos>>

\* the year <select>: setSelectedYear, then useEffect(loadMovimientos)
SelectYear ==
    /\ \E y \in Years \ {selectedYear} :
           /\ selectedYear' = y
           /\ \E outcome \in Outcomes : loadMovimientos(y, outcome)
    /\ UNCHANGED <<restVars, store, yearlyVars, uiVars, editorCategorias,
                   editorMovimientos>>

-----------------------------------------------------------------------------
(* Kind resolution: the dashboard over rows of every tipo, category and    *)
(* amount.                                                                 *)

F_2024 == <<"2", "0", "2", "4", "-", "0", "1", "-", "1", "5">>

KindTipos ==
    {Null, <<>>, <<"G", "a", "s", "t", "o", " ">>,
     <<"I", "N", "G", "R", "E", "S", "O">>, <<"g">>, <<"x">>,
     T_cargo \o <<" ">> \o T_abono}

KindImportes == {NoNum, Num(0), Num(-50), Num(50)}

KindCategorias == {Null, C_1, C_2, C_4}

KindRows ==
    {RawMov(F_2024, tipo, importe, Null, JsNull, categoria_id) :
        tipo \in KindTipos, importe \in KindImportes,
        categoria_id \in KindCategorias}

InitKind == store \in BoundedSeq(KindRows, MaxKindMovs) /\ InitState

NextKind == LoadMovimientos \/ SelectYear

SpecKind == InitKind /\ [][NextKind]_vars

\* C2: the kind of every classified row of the dashboard follows the strict
\* precedence: the tipo text when it classifies, else the category kind when
\* it classifies, else gasto for a negative amount and ingreso for a zero,
\* positive or missing one.
C2_Precedence ==
    LET rows == movimientoRows.ingresos \o movimientoRows.gastos
        fromTipo(mov) == normalizeKindLabel(mov.tipo)
        fromCategory(mov) == normalizeKindLabel(mov.categoria_kind)
        negative(mov) == mov.importe # NoNum /\ mov.importe[1] < 0
    IN  /\ Len(rows) = Len(movimientos)
        /\ \A i \in 1..Len(rows) :
               LET mov == rows[i]
               IN  /\ fromTipo(mov) # Null => mov.kind = fromTipo(mov)
                   /\ fromTipo(mov) = Null /\ fromCategory(mov) # Null
                          => mov.kind = fromCategory(mov)
                   /\ fromTipo(mov) = Null /\ fromCategory(mov) = Null
                          => mov.kind = IF negative(mov)
                                        THEN T_gasto ELSE T_ingreso

\* a tipo of gasto on a movement whose category resolves to ingreso
C2_Witness ==
    /\ \E i \in 1..Len(movimientos) :
           /\ normalizeKindLabel(movimientos[i].tipo) = T_gasto
           /\ movimientos[i].categoria_kind = T_ingreso
           /\ movimientoRows.gastos # <<>>
    /\ selectedYear = CURRENT_YEAR

-----------------------------------------------------------------------------
(* The movements editor (MovimientosClient)                                *)

T_sinNombre ==
    <<"S", "i", "n", " ", "n", "o", "m", "b", "r", "e">>

\* the collation order of the characters at the primary level: spaces,
\* punctuation, symbols, digits, letters; case and accents are not primary
CollationAlphabet ==
    <<" ", "_", "-", "dash", "|", ",", ".", "euro">> \o Digits \o LowerLetters

CollationKey(c) ==
    LET base == DecomposeChar(LowerChar(c))[1]
        b == IF base \in {"nbsp", "tab"} THEN " " ELSE base
    IN  IF \E i \in 1..Len(CollationAlphabet) : CollationAlphabet[i] = b
        THEN CHOOSE i \in 1..Len(CollationAlphabet) : CollationAlphabet[i] = b
        ELSE 0

\* a.localeCompare(b, "es-ES") < 0, decided at the primary level
RECURSIVE LocaleLess(_, _)
LocaleLess(a, b) ==
    IF b = <<>> THEN FALSE
    ELSE IF a = <<>> THEN TRUE
    ELSE IF CollationKey(Head(a)) # CollationKey(Head(b))
    THEN CollationKey(Head(a)) < CollationKey(Head(b))
    ELSE LocaleLess(Tail(a), Tail(b))

\* Array.prototype.sort with a comparator that is negative exactly when
\* less(a, b): ascending, rows that compare equal keep their order
SortBy(rows, less(_, _)) ==
    LET n == Len(rows)
        before(j, i) ==
            less(rows[j], rows[i]) \/ (~less(rows[i], rows[j]) /\ j < i)
        rank(i) == Cardinality({j \in 1..n : j # i /\ before(j, i)}) + 1
    IN  [p \in 1..n |-> rows[CHOOSE i \in 1..n : rank(i) = p]]

\* the days of new Date(fecha).getTime(), 0 standing for a fecha the store
\* never holds
TimeOf(fecha) == IF DateParse(fecha) = <<>> THEN 0 ELSE DateParse(fecha)[1]

\* the creado_en column of a row of the store: <<>> when the row has none,
\* <<t>> otherwise
createdOf(row) ==
    IF "creado_en" \in DOMAIN row THEN row.creado_en ELSE <<>>

\* a.creado_en ? new Date(a.creado_en).getTime() : 0
createdTime(mov) == IF mov.creado_en = <<>> THEN 0 ELSE mov.creado_en[1]

\* sortMovimientos with a fault: the creation time is not compared
sortMovimientos_dateOnly(rows) ==
    SortBy(rows, LAMBDA a, b : TimeOf(b.fecha) - TimeOf(a.fecha) < 0)

sortMovimientos(rows) ==
    SortBy(rows,
           LAMBDA a, b :
               IF TimeOf(b.fecha) - TimeOf(a.fecha) # 0
               THEN TimeOf(b.fecha) - TimeOf(a.fecha) < 0
               ELSE createdTime(b) - createdTime(a) < 0)

\* loadCategorias: the mapped and ordered categorias
mappedCategorias(data) ==
    SortBy([i \in 1..Len(data) |->
              [id |-> Entry(data[i], K_id).s,
               nombre |-> IF HasTyped(data[i], K_nombre, "string")
                          THEN Entry(data[i], K_nombre).s ELSE T_sinNombre,
               kind |-> resolveCategoryKind(data[i])]],
           LAMBDA a, b : LocaleLess(a.nombre, b.nombre))

\* the enriched, sorted list of MovimientosClient's loadMovimientos
enriched_editor(data, categorias) ==
    LET known(id) == \E j \in 1..Len(categorias) : categorias[j].id = id
        cat(id) == categorias[
                       CHOOSE j \in 1..Len(categorias) :
                           /\ categorias[j].id = id
                           /\ \A k \in (j + 1)..Len(categorias) :
                                  categorias[k].id # id]
        truthy(id) == id # Null /\ id # <<>>
    IN  sortMovimientos(
          [i \in 1..Len(data) |->
             [id |-> RowId(i), fecha |-> data[i].fecha,
              tipo |-> data[i].tipo, importe |-> data[i].importe,
              detalle |-> data[i].detalle, fijo |-> data[i].fijo,
              categoria_id |-> data[i].categoria_id,
              creado_en |-> createdOf(data[i]),
              categoria_nombre |->
                  IF truthy(data[i].categoria_id)
                     /\ known(data[i].categoria_id)
                  THEN cat(data[i].categoria_id).nombre ELSE Null,
              categoria_kind |->
                  IF truthy(data[i].categoria_id)
                     /\ known(data[i].categoria_id)
                  THEN cat(data[i].categoria_id).kind ELSE Null]])

dashboardVars == <<selectedYear, movimientos, movimientosError,
                   yearlyVars, uiVars>>

\* useEffect(loadCategorias)
LoadCategorias_editor ==
    /\ \/ editorCategorias' = <<>>
       \/ editorCategorias' = mappedCategorias(storeCategorias)
    /\ UNCHANGED <<restVars, store, dashboardVars, editorMovimientos>>

\* useEffect(loadMovimientos) of the editor
LoadMovimientos_editor ==
    /\ \/ editorMovimientos' = <<>>
       \/ editorMovimientos' = enriched_editor(store, editorCategorias)
    /\ UNCHANGED <<restVars, store, dashboardVars, editorCategorias>>

\* the kind the editor's table and formatMovementAmount compute for a row
editorKinds ==
    [i \in 1..Len(editorMovimientos) |->
       resolveKind_editor(editorMovimientos[i])]

InitEditor == store \in BoundedSeq(KindRows, MaxEditorMovs) /\ InitState

NextEditor ==
    LoadMovimientos \/ LoadCategorias_editor \/ LoadMovimientos_editor

SpecEditor == InitEditor /\ [][NextEditor]_vars

\* C1: for every movement the kind resolver returns ingreso or gasto, never
\* null: in the dashboard and in the movements editor.
C1_Totality ==
    /\ \A i \in 1..Len(editorMovimientos) :
           editorKinds[i] \in {T_ingreso, T_gasto}
    /\ \A i \in 1..Len(movimientos) :
           resolveKind(movimientos[i]) \in {T_ingreso, T_gasto}

-----------------------------------------------------------------------------
(* The yearly pivot (yearlyDisplay): loading and accumulation              *)

\* loadYearlyMovimientos: every row of the book, whatever its year; the
\* pages of the range() loop are concatenated into allRows
fetchYearlyMovimientos(rows) ==
    [i \in 1..Len(rows) |->
       [id |-> RowId(i), fecha |-> rows[i].fecha, tipo |-> rows[i].tipo,
        importe |-> rows[i].importe, detalle |-> rows[i].detalle,
        fijo |-> rows[i].fijo, categoria_id |-> rows[i].categoria_id]]

\* useEffect(loadYearlyMovimientos)
LoadYearlyMovimientos ==
    /\ LET allRows == fetchYearlyMovimientos(store)
           categoriaIds == categoriaIdsOf(allRows)
       IN  \/ yearlyMovimientos' = <<>>
           \/ /\ categoriaIds # {}
              /\ yearlyMovimientos' = enrich(allRows, <<>>)
           \/ yearlyMovimientos' = enrich(allRows,
                                          fetchCategorias(categoriaIds))
    /\ UNCHANGED <<restVars, store, selectedYear, movimientos, movimientosError,
                   showYearlyIngresos, showYearlyGastos, showYearlyFijos,
                   showYearlyVariables, selectedYearlyYear,
                   selectedYearlyCategory, selectedYearlyDetail, uiVars,
                   editorCategorias, editorMovimientos>>

\* Number(fecha.slice(0, 4)) || new Date(fecha).getFullYear(): <<>> for NaN
yearOfFecha(fecha) ==
    LET head == SubSeq(fecha, 1, IF Len(fecha) < 4 THEN Len(fecha) ELSE 4)
    IN  IF head # <<>> /\ AllDigits(head) /\ DigitsValue(head) # 0
        THEN <<DigitsValue(head)>>
        ELSE IF DateParse(fecha) # <<>>
        THEN <<DigitsValue(SubSeq(fecha, 1, 4))>>
        ELSE <<>>

\* the kind yearlyDisplay gives a movement
yearlyKind(mov) ==
    LET tipoKind == normalizeKindLabel(mov.tipo)
    IN  IF tipoKind # Null THEN tipoKind
        ELSE IF NumberOr0(mov.importe) < 0 THEN T_gasto ELSE T_ingreso

\* the isFijo of yearlyDisplay with a fault: only the boolean true is fixed
yearlyIsFijo_strict(mov) == mov.fijo = JsTrue

\* the isFijo of yearlyDisplay
yearlyIsFijo(mov) ==
    LET fijoRaw == mov.fijo
        fijoLabel == toLowerCase(fijoRaw.v)
    IN  \/ fijoRaw = JsTrue
        \/ fijoRaw = [t |-> "number", v |-> <<"1">>]
        \/ fijoRaw = [t |-> "string", v |-> <<"1">>]
        \/ fijoLabel = <<"t", "r", "u", "e">>
        \/ fijoLabel = <<"t">>

\* selectedYearlyYear === "todos" ? null : Number(selectedYearlyYear)
yearlySelectedYear ==
    IF selectedYearlyYear = T_todos THEN <<>>
    ELSE <<DigitsValue(selectedYearlyYear)>>

yearlyCategoryLabel(mov) == Coalesce(mov.categoria_nombre, T_sinCategoria)

yearlyDetailLabel(mov) ==
    IF mov.detalle # Null /\ Len(trim(mov.detalle)) > 0
    THEN trim(mov.detalle) ELSE T_sinDetalle

\* the movements whose year the forEach adds to yearsSet
yearlyYearPasses(mov) ==
    /\ Magnitude(mov) # 0
    /\ yearOfFecha(mov.fecha) # <<>>
    /\ yearlySelectedYear = <<>> \/ yearOfFecha(mov.fecha) = yearlySelectedYear

\* yearlyCounted with a fault: the detail selector is not read
yearlyCounted_anyDetail(mov) ==
    /\ yearlyYearPasses(mov)
    /\ selectedYearlyCategory = T_todas
       \/ yearlyCategoryLabel(mov) = selectedYearlyCategory

\* the movements the forEach adds to an accumulator
yearlyCounted(mov) ==
    /\ yearlyYearPasses(mov)
    /\ selectedYearlyCategory = T_todas
       \/ yearlyCategoryLabel(mov) = selectedYearlyCategory
    /\ selectedYearlyDetail = T_todos
       \/ yearlyDetailLabel(mov) = selectedYearlyDetail

\* mov.categoria_id ?? categoryLabel
yearlyCategoryKey(mov) ==
    IF mov.categoria_id # Null THEN mov.categoria_id
    ELSE yearlyCategoryLabel(mov)

\* the name of the accumulator a counted movement is added to
yearlySeries(mov) ==
    IF yearlyKind(mov) = T_ingreso
    THEN (IF yearlyIsFijo(mov) THEN "ingresoFijo" ELSE "ingresoVariable")
    ELSE (IF yearlyIsFijo(mov) THEN "gastoFijo" ELSE "gastoVariable")

YearlySeriesNames ==
    {"ingresoFijo", "ingresoVariable", "gastoFijo", "gastoVariable"}

\* yearsSet after the forEach
yearlyYearsSet ==
    {yearOfFecha(yearlyMovimientos[i].fecha)[1] :
        i \in {j \in 1..Len(yearlyMovimientos) :
                   yearlyYearPasses(yearlyMovimientos[j])}}

\* the keys of map after the forEach, in insertion order
yearlyKeys ==
    LET counted == SelectSeq(yearlyMovimientos, yearlyCounted)
        first(i) == \A j \in 1..(i - 1) :
                        yearlyCategoryKey(counted[j]) #
                            yearlyCategoryKey(counted[i])
        firsts == {i \in 1..Len(counted) : first(i)}
        nth(p) == CHOOSE i \in firsts :
                      Cardinality({j \in firsts : j < i}) = p - 1
    IN  [p \in 1..Cardinality(firsts) |-> yearlyCategoryKey(counted[nth(p)])]

\* record[year] ?? 0 of one accumulator of one map entry after the forEach
yearlyCell(key, series, year) ==
    SumSeq([i \in 1..Len(yearlyMovimientos) |->
              LET mov == yearlyMovimientos[i]
              IN  IF /\ yearlyCounted(mov)
                     /\ yearlyCategoryKey(mov) = key
                     /\ yearlySeries(mov) = series
                     /\ yearOfFecha(mov.fecha) = <<year>>
                  THEN Magnitude(mov) ELSE 0])

\* map after the forEach: per key, the label given by ensureCategory at the
\* first movement of the key, and the four accumulators
yearlyMap ==
    [p \in 1..Len(yearlyKeys) |->
       LET key == yearlyKeys[p]
           counted == SelectSeq(yearlyMovimientos, yearlyCounted)
           firstMov == counted[CHOOSE i \in 1..Len(counted) :
                                  /\ yearlyCategoryKey(counted[i]) = key
                                  /\ \A j \in 1..(i - 1) :
                                         yearlyCategoryKey(counted[j]) # key]
           cells(series) ==
               [year \in {y \in yearlyYearsSet :
                              yearlyCell(key, series, y) # 0} |->
                   yearlyCell(key, series, year)]
       IN  [key |-> key,
            category |-> yearlyCategoryLabel(firstMov),
            ingresoFijo |-> cells("ingresoFijo"),
            ingresoVariable |-> cells("ingresoVariable"),
            gastoFijo |-> cells("gastoFijo"),
            gastoVariable |-> cells("gastoVariable")]]

InitYearlyKind == store \in BoundedSeq(KindRows, MaxYearlyMovs) /\ InitState

NextYearlyKind == LoadYearlyMovimientos \/ LoadMovimientos

SpecYearlyKind == InitYearlyKind /\ [][NextYearlyKind]_vars

\* the sum of an accumulator over every entry and year of yearlyMap
YearlySeriesTotal(series) ==
    SumSeq([p \in 1..Len(yearlyMap) |->
              LET cells == yearlyMap[p][series]
                  years == DOMAIN cells
                  RECURSIVE sumOver(_)
                  sumOver(S) ==
                      IF S = {} THEN 0
                      ELSE LET y == CHOOSE y \in S : TRUE
                           IN  cells[y] + sumOver(S \ {y})
              IN  sumOver(years)])

\* C3: the yearly pivot classifies every movement as resolveKind does: a
\* movement is accumulated in an ingreso series iff resolveKind gives ingreso.
C3_YearlyKindIsResolveKind ==
    /\ \A i \in 1..Len(yearlyMovimientos) :
           yearlyCounted(yearlyMovimientos[i]) =>
               yearlyKind(yearlyMovimientos[i]) =
                   resolveKind(yearlyMovimientos[i])
    /\ YearlySeriesTotal("ingresoFijo") + YearlySeriesTotal("ingresoVariable")
           = SumSeq([i \in 1..Len(yearlyMovimientos) |->
                       IF /\ yearlyCounted(yearlyMovimientos[i])
                          /\ resolveKind(yearlyMovimientos[i]) = T_ingreso
                       THEN Magnitude(yearlyMovimientos[i]) ELSE 0])

-----------------------------------------------------------------------------
(* Fixed/variable filter and category filter *)

\* mov.fijo === true
isFijo(mov) == mov.fijo = JsTrue

\* the filter with a fault: a fijo that is not true is read as fixed unless
\* it is false
fijoFilter_truthy(rows, showFijos, showVariables) ==
    SelectSeq(rows, LAMBDA mov :
        \/ mov.fijo # JsFalse /\ showFijos
        \/ mov.fijo = JsFalse /\ showVariables)

\* the callback of filteredIngresos and filteredGastos
fijoFilter(rows, showFijos, showVariables) ==
    SelectSeq(rows, LAMBDA mov :
        \/ isFijo(mov) /\ showFijos
        \/ ~isFijo(mov) /\ showVariables)

filteredIngresos ==
    fijoFilter(movimientoRows.ingresos, showIngresosFijos,
               showIngresosVariables)

filteredGastos ==
    fijoFilter(movimientoRows.gastos, showGastosFijos, showGastosVariables)

\* Array.from(new Set(rows.map((mov) => mov.categoryName))).sort(localeCompare)
categoriesOf(rows) ==
    LET firsts == {i \in 1..Len(rows) :
                      \A j \in 1..(i - 1) :
                          rows[j].categoryName # rows[i].categoryName}
        nth(p) == CHOOSE i \in firsts :
                      Cardinality({j \in firsts : j < i}) = p - 1
        names == [p \in 1..Cardinality(firsts) |-> rows[nth(p)].categoryName]
    IN  SortBy(names, LocaleLess)

ingresoCategories == categoriesOf(filteredIngresos)

gastoCategories == categoriesOf(filteredGastos)

\* categories.includes(name)
Includes(categories, name) ==
    \E i \in 1..Len(categories) : categories[i] = name

\* safeSelected... with a fault: the selection is used as it is
safeSelected_raw(selected, categories) == selected

\* the expression of safeSelectedIngresosCategory / safeSelectedGastosCategory
safeSelected(selected, categories) ==
    IF selected = T_todas \/ Includes(categories, selected)
    THEN selected ELSE T_todas

safeSelectedIngresosCategory ==
    safeSelected(selectedIngresosCategory, ingresoCategories)

safeSelectedGastosCategory ==
    safeSelected(selectedGastosCategory, gastoCategories)

\* the callback of displayedIngresos and displayedGastos
categoryFilter(rows, category) ==
    IF category = T_todas THEN rows
    ELSE SelectSeq(rows, LAMBDA mov : mov.categoryName = category)

displayedIngresos ==
    categoryFilter(filteredIngresos, safeSelectedIngresosCategory)

displayedGastos == categoryFilter(filteredGastos, safeSelectedGastosCategory)

otherVars == <<yearlyVars, sortVars, chartVars, editorCategorias,
               editorMovimientos>>

dataVars == <<store, selectedYear, movimientos, movimientosError>>

searchGroupVars == <<searchIngresos, searchGastos, groupIngresosByCategory,
                     groupIngresosByDetail, groupGastosByCategory,
                     groupGastosByDetail>>

\* the "Fijos" checkbox of the income card
SetShowIngresosFijos ==
    /\ \E checked \in BOOLEAN \ {showIngresosFijos} :
           showIngresosFijos' = checked
    /\ UNCHANGED <<restVars, dataVars, otherVars, searchGroupVars,
                   showIngresosVariables, showGastosFijos,
                   showGastosVariables, selectedIngresosCategory,
                   selectedGastosCategory>>

SetShowIngresosVariables ==
    /\ \E checked \in BOOLEAN \ {showIngresosVariables} :
           showIngresosVariables' = checked
    /\ UNCHANGED <<restVars,
                   dataVars, otherVars, searchGroupVars, showIngresosFijos,
                   showGastosFijos, showGastosVariables,
                   selectedIngresosCategory, selectedGastosCategory>>

SetShowGastosFijos ==
    /\ \E checked \in BOOLEAN \ {showGastosFijos} :
           showGastosFijos' = checked
    /\ UNCHANGED <<restVars,
                   dataVars, otherVars, searchGroupVars, showIngresosFijos,
                   showIngresosVariables, showGastosVariables,
                   selectedIngresosCategory, selectedGastosCategory>>

SetShowGastosVariables ==
    /\ \E checked \in BOOLEAN \ {showGastosVariables} :
           showGastosVariables' = checked
    /\ UNCHANGED <<restVars,
                   dataVars, otherVars, searchGroupVars, showIngresosFijos,
                   showIngresosVariables, showGastosFijos,
                   selectedIngresosCategory, selectedGastosCategory>>

\* the options of a category <select>
Options(categories) == {T_todas} \cup {categories[i] : i \in 1..Len(categories)}

\* the category <select> of the income card; it is disabled without
\* categories and shows safeSelectedIngresosCategory
SelectIngresosCategory ==
    /\ ingresoCategories # <<>>
    /\ \E value \in Options(ingresoCategories) \ {safeSelectedIngresosCategory} :
           selectedIngresosCategory' = value
    /\ UNCHANGED <<restVars,
                   dataVars, otherVars, searchGroupVars, showIngresosFijos,
                   showIngresosVariables, showGastosFijos,
                   showGastosVariables, selectedGastosCategory>>

SelectGastosCategory ==
    /\ gastoCategories # <<>>
    /\ \E value \in Options(gastoCategories) \ {safeSelectedGastosCategory} :
           selectedGastosCategory' = value
    /\ UNCHANGED <<restVars,
                   dataVars, otherVars, searchGroupVars, showIngresosFijos,
                   showIngresosVariables, showGastosFijos,
                   showGastosVariables, selectedIngresosCategory>>

T_Ingreso == <<"I", "n", "g", "r", "e", "s", "o">>

FilterRows ==
    {RawMov(F_2024, T_Ingreso, Num(10), Null, JsTrue, C_2),
     RawMov(F_2024, T_Ingreso, Num(10), Null, JsNull, C_4),
     RawMov(F_2024, T_gasto, Num(10), Null, JsTrue, C_4),
     RawMov(F_2024, Null, NoNum, Null, JsFalse, Null),
     RawMov(F_2024, Null, Num(-20), Null, JsFalse, C_3),
     RawMov(F_2024, T_Ingreso, Num(-30), Null, JsTrue, C_1)}

InitFilter == store \in BoundedSeq(FilterRows, MaxMovs) /\ InitState

NextFilter ==
    \/ LoadMovimientos
    \/ SetShowIngresosFijos
    \/ SetShowIngresosVariables
    \/ SetShowGastosFijos
    \/ SetShowGastosVariables
    \/ SelectIngresosCategory
    \/ SelectGastosCategory

SpecFilter == InitFilter /\ [][NextFilter]_vars

\* the position in rows of the row with the given id
PositionOf(rows, id) == CHOOSE i \in 1..Len(rows) : rows[i].id = id

\* out keeps exactly the rows of in that satisfy keep, in the order of in
KeepsExactly(in, out, keep(_)) ==
    /\ \A i \in 1..Len(in) :
           keep(in[i]) <=> \E j \in 1..Len(out) : out[j] = in[i]
    /\ \A j \in 1..Len(out) : \E i \in 1..Len(in) : in[i] = out[j]
    /\ \A j, k \in 1..Len(out) :
           j < k => PositionOf(in, out[j].id) < PositionOf(in, out[k].id)

\* C4: totals.ingresos and totals.gastos are the sums of the magnitudes of
\* the two classified lists, and balance is their difference; so it is in
\* app/dashboard/page.tsx with its own classification.
C4_Totals ==
    LET sum(rows) == SumSeq([i \in 1..Len(rows) |-> rows[i].sortValue])
        magnitudeOk(row) ==
            row.sortValue = (IF row.importe = NoNum THEN 0
                             ELSE IF row.importe[1] < 0 THEN 0 - row.importe[1]
                             ELSE row.importe[1])
        ok(t, rows) ==
            /\ t.ingresos = sum(rows.ingresos)
            /\ t.gastos = sum(rows.gastos)
            /\ t.balance = t.ingresos - t.gastos
            /\ \A i \in 1..Len(rows.ingresos) : magnitudeOk(rows.ingresos[i])
            /\ \A i \in 1..Len(rows.gastos) : magnitudeOk(rows.gastos[i])
        absOf(kind) ==
            SumSeq([i \in 1..Len(movimientos) |->
                      IF resolveKind(movimientos[i]) = kind
                      THEN Abs(NumberOr0(movimientos[i].importe)) ELSE 0])
    IN  /\ ok(totals, movimientoRows)
        /\ totals.ingresos = absOf(T_ingreso)
        /\ totals.gastos = absOf(T_gasto)
        /\ ok(totals_page, movimientoRows_page)

\* an income with a negative amount, an expense, and a non-zero balance
C4_Witness ==
    LET rows == movimientoRows
        t == totals
    IN  /\ \E i \in 1..Len(rows.ingresos) :
               /\ rows.ingresos[i].importe # NoNum
               /\ rows.ingresos[i].importe[1] < 0
        /\ rows.gastos # <<>>
        /\ t.gastos > 0
        /\ t.balance # 0

\* C5: the fixed/variable filter keeps a movement iff (fijo === true and
\* show-fixed) or (fijo is not true and show-variable); both toggles off give
\* the empty list; the input order is kept; filtering the output again with
\* the same toggles gives the same list.
C5_FijoFilter ==
    LET rows == movimientoRows
        ok(in, showFijos, showVariables) ==
            LET out == fijoFilter(in, showFijos, showVariables)
            IN  /\ KeepsExactly(in, out, LAMBDA mov :
                       \/ mov.fijo = JsTrue /\ showFijos
                       \/ mov.fijo # JsTrue /\ showVariables)
                /\ ~showFijos /\ ~showVariables => out = <<>>
                /\ fijoFilter(out, showFijos, showVariables) = out
    IN  /\ filteredIngresos = fijoFilter(rows.ingresos, showIngresosFijos,
                                         showIngresosVariables)
        /\ filteredGastos = fijoFilter(rows.gastos, showGastosFijos,
                                       showGastosVariables)
        /\ ok(rows.ingresos, showIngresosFijos, showIngresosVariables)
        /\ ok(rows.gastos, showGastosFijos, showGastosVariables)

\* the income list holds a fixed row and a row whose fijo is null, the
\* show-fixed toggle is off and the null row is kept
C5_Witness ==
    LET rows == movimientoRows
        out == filteredIngresos
    IN  /\ ~showIngresosFijos /\ showIngresosVariables
        /\ \E i \in 1..Len(rows.ingresos) : rows.ingresos[i].fijo = JsTrue
        /\ \E i \in 1..Len(out) : out[i].fijo = JsNull
        /\ Len(out) < Len(rows.ingresos)

\* the category filter applied to the displayed lists is "todas" or a
\* category of the current filtered list (DashboardPage with
\* safeSelectedIngresosCategory / safeSelectedGastosCategory)
NoStaleCategory ==
    /\ safeSelectedIngresosCategory = T_todas
       \/ Includes(ingresoCategories, safeSelectedIngresosCategory)
    /\ safeSelectedGastosCategory = T_todas
       \/ Includes(gastoCategories, safeSelectedGastosCategory)
    /\ displayedIngresos =
           categoryFilter(filteredIngresos, safeSelectedIngresosCategory)
    /\ filteredIngresos # <<>> => displayedIngresos # <<>>
    /\ filteredGastos # <<>> => displayedGastos # <<>>

\* a selection that is no longer among the categories
StaleSelection ==
    /\ selectedIngresosCategory # T_todas
    /\ ~Includes(ingresoCategories, selectedIngresosCategory)
    /\ filteredIngresos # <<>>

-----------------------------------------------------------------------------
(* app/dashboard/page.tsx: the variant that resets the category selection  *)
(* in an effect                                                            *)

\* the enriched list of page.tsx: no categoria_kind is attached
enrich_page(data, categoriasData) ==
    LET enriched == enrich(data, categoriasData)
    IN  [i \in 1..Len(enriched) |->
           [enriched[i] EXCEPT !.categoria_kind = Null]]

LoadMovimientos_page ==
    /\ LET movimientosData == fetchMovimientos(store, selectedYear)
           categoriaIds == categoriaIdsOf(movimientosData)
       IN  \/ /\ movimientosError' = T_error
              /\ movimientos' = <<>>
           \/ /\ categoriaIds # {}
              /\ movimientosError' = T_error
              /\ movimientos' = enrich_page(movimientosData, <<>>)
           \/ /\ movimientosError' = Null
              /\ movimientos' = enrich_page(movimientosData,
                                            fetchCategorias(categoriaIds))
    /\ UNCHANGED <<restVars, store, selectedYear, yearlyVars, uiVars,
                   editorCategorias, editorMovimientos>>

filteredIngresos_page ==
    fijoFilter(movimientoRows_page.ingresos, showIngresosFijos,
               showIngresosVariables)

filteredGastos_page ==
    fijoFilter(movimientoRows_page.gastos, showGastosFijos,
               showGastosVariables)

ingresoCategories_page == categoriesOf(filteredIngresos_page)

gastoCategories_page == categoriesOf(filteredGastos_page)

displayedIngresos_page ==
    categoryFilter(filteredIngresos_page, selectedIngresosCategory)

displayedGastos_page ==
    categoryFilter(filteredGastos_page, selectedGastosCategory)

SelectIngresosCategory_page ==
    /\ ingresoCategories_page # <<>>
    /\ \E value \in Options(ingresoCategories_page) \ {selectedIngresosCategory} :
           selectedIngresosCategory' = value
    /\ UNCHANGED <<restVars,
                   dataVars, otherVars, searchGroupVars, showIngresosFijos,
                   showIngresosVariables, showGastosFijos,
                   showGastosVariables, selectedGastosCategory>>

SelectGastosCategory_page ==
    /\ gastoCategories_page # <<>>
    /\ \E value \in Options(gastoCategories_page) \ {selectedGastosCategory} :
           selectedGastosCategory' = value
    /\ UNCHANGED <<restVars,
                   dataVars, otherVars, searchGroupVars, showIngresosFijos,
                   showIngresosVariables, showGastosFijos,
                   showGastosVariables, selectedIngresosCategory>>

\* useEffect(..., [ingresoCategories, selectedIngresosCategory]): runs after
\* the render that computed displayedIngresos has been committed
ResetIngresosCategory_page ==
    /\ selectedIngresosCategory # T_todas
    /\ ~Includes(ingresoCategories_page, selectedIngresosCategory)
    /\ selectedIngresosCategory' = T_todas
    /\ UNCHANGED <<restVars,
                   dataVars, otherVars, searchGroupVars, showIngresosFijos,
                   showIngresosVariables, showGastosFijos,
                   showGastosVariables, selectedGastosCategory>>

ResetGastosCategory_page ==
    /\ selectedGastosCategory # T_todas
    /\ ~Includes(gastoCategories_page, selectedGastosCategory)
    /\ selectedGastosCategory' = T_todas
    /\ UNCHANGED <<restVars,
                   dataVars, otherVars, searchGroupVars, showIngresosFijos,
                   showIngresosVariables, showGastosFijos,
                   showGastosVariables, selectedIngresosCategory>>

NextFilter_page ==
    \/ LoadMovimientos_page
    \/ SetShowIngresosFijos
    \/ SetShowIngresosVariables
    \/ SetShowGastosFijos
    \/ SetShowGastosVariables
    \/ SelectIngresosCategory_page
    \/ SelectGastosCategory_page
    \/ ResetIngresosCategory_page
    \/ ResetGastosCategory_page

SpecFilter_page == InitFilter /\ [][NextFilter_page]_vars

\* C6: in every rendered state the category filter applied to the displayed
\* income (resp. expense) list is "todas" or a category of the current
\* fixed/variable-filtered list.
C6_NoStaleCategory ==
    /\ selectedIngresosCategory = T_todas
       \/ Includes(ingresoCategories_page, selectedIngresosCategory)
    /\ selectedGastosCategory = T_todas
       \/ Includes(gastoCategories_page, selectedGastosCategory)

-----------------------------------------------------------------------------
(* Search and grouping of the income and expense cards *)

RECURSIVE NumStr(_)
\* String(n) of a non-negative integer
NumStr(n) ==
    IF n < 10 THEN <<Digits[n + 1]>>
    ELSE NumStr(n \div 10) \o <<Digits[(n % 10) + 1]>>

RECURSIVE Group3(_)
\* the digits in groups of three separated by "."
Group3(d) ==
    IF Len(d) <= 3 THEN d
    ELSE Group3(SubSeq(d, 1, Len(d) - 3)) \o <<".">>
             \o SubSeq(d, Len(d) - 2, Len(d))

\* new Intl.NumberFormat("es-ES", {maximumFractionDigits: 2}).format(n) of a
\* non-negative integer: es-ES groups from five digits on
formatNumber(n) ==
    IF Len(NumStr(n)) >= 5 THEN Group3(NumStr(n)) ELSE NumStr(n)

\* formatCurrency of a non-negative integer, the book's currency being EUR:
\* two decimals, a no-break space and the euro sign
formatCurrency(n) == formatNumber(n) \o <<",", "0", "0", "nbsp", "euro">>

normalizeText(value) ==
    SelectSeq(normalizeNFD(toLowerCase(value)), NotCombining)

RECURSIVE collapseSpaces(_)
\* .replace(/\s+/g, " ")
collapseSpaces(s) ==
    IF s = <<>> THEN <<>>
    ELSE IF IsSpace(Head(s)) THEN <<" ">> \o collapseSpaces(trimStart(Tail(s)))
    ELSE <<Head(s)>> \o collapseSpaces(Tail(s))

\* normalizeQuery with a fault: the whitespace is neither collapsed nor trimmed
normalizeQuery_raw(value) == normalizeText(value)

normalizeQuery(value) == trim(collapseSpaces(normalizeText(value)))

\* the template string searched for a movement row
movementSearchText(mov) ==
    mov.categoryName \o <<" ">> \o Coalesce(mov.detailText, <<>>) \o <<" ">>
        \o NumStr(Magnitude(mov)) \o <<" ">> \o formatNumber(Magnitude(mov))
        \o <<" ">> \o formatCurrency(Magnitude(mov))

filterMovementRows(rows, query) ==
    IF query = <<>> THEN rows
    ELSE SelectSeq(rows, LAMBDA mov :
             includes(normalizeText(movementSearchText(mov)), query))

\* the template string searched for a grouped row
groupedSearchText(row) ==
    row.categoryName \o <<" ">> \o row.detailText \o <<" ">>
        \o NumStr(row.total) \o <<" ">> \o formatNumber(row.total)
        \o <<" ">> \o formatCurrency(row.total)

filterGroupedRows(rows, query) ==
    IF query = <<>> THEN rows
    ELSE SelectSeq(rows, LAMBDA row :
             includes(normalizeText(groupedSearchText(row)), query))

T_Si == <<"S", "i_acute">>

T_No == <<"N", "o">>

T_Mixto == <<"M", "i", "x", "t", "o">>

\* the label with a fault: a bucket with a fixed movement is never "Mixto"
fijoLabel_anyFijo(hasFijo, hasVariable) == IF hasFijo THEN T_Si ELSE T_No

fijoLabelOf(hasFijo, hasVariable) ==
    IF hasFijo /\ hasVariable THEN T_Mixto
    ELSE IF hasFijo THEN T_Si ELSE T_No

\* mov.detailText ?? "—"
detailOrDash(mov) == Coalesce(mov.detailText, T_dash)

\* Number.isFinite(Date.parse(mov.fecha)) ? Date.parse(mov.fecha) : 0, in
\* days: the fecha column holds dates without a time of day
movementDate(mov) ==
    IF DateParse(mov.fecha) = <<>> THEN 0 ELSE DateParse(mov.fecha)[1]

SetMax(S) == CHOOSE x \in S : \A y \in S : y <= x

GroupingOptions == [byCategory : BOOLEAN, byDetail : BOOLEAN]

groupKey(mov, options) ==
    (IF options.byCategory THEN mov.categoryName ELSE T_todas)
        \o <<"|", "|">>
        \o (IF options.byDetail THEN detailOrDash(mov) ELSE T_todas)

\* the keys of the Map in insertion order, as the indexes of the rows that
\* created them
firstsByKey(keys) ==
    LET firsts == {i \in 1..Len(keys) :
                      \A j \in 1..(i - 1) : keys[j] # keys[i]}
        nth(p) == CHOOSE i \in firsts :
                      Cardinality({j \in firsts : j < i}) = p - 1
    IN  [p \in 1..Cardinality(firsts) |-> nth(p)]

\* the Map entry of the key created by rows[f], after the forEach
groupedEntry(rows, keys, f) ==
    LET members == {i \in 1..Len(rows) : keys[i] = keys[f]}
    IN  [key |-> keys[f],
         categoryName |-> rows[f].categoryName,
         detailText |-> detailOrDash(rows[f]),
         total |-> SumSeq([i \in 1..Len(rows) |->
                             IF i \in members THEN Magnitude(rows[i]) ELSE 0]),
         hasFijo |-> \E i \in members : rows[i].fijo = JsTrue,
         hasVariable |-> \E i \in members : rows[i].fijo # JsTrue,
         latestDate |-> SetMax({0} \cup {movementDate(rows[i]) : i \in members}),
         categories |-> {rows[i].categoryName : i \in members},
         details |-> {detailOrDash(rows[i]) : i \in members}]

\* buildGroupedRows with a fault: the amount replaces the total of the bucket
buildGroupedRows_lastAmount(rows, options) ==
    LET keys == [i \in 1..Len(rows) |-> groupKey(rows[i], options)]
        firsts == firstsByKey(keys)
        last(f) == SetMax({i \in 1..Len(rows) : keys[i] = keys[f]})
        values == [p \in 1..Len(firsts) |->
                     LET row == groupedEntry(rows, keys, firsts[p])
                     IN  [key |-> row.key, categoryName |-> row.categoryName,
                          detailText |-> row.detailText,
                          total |-> Magnitude(rows[last(firsts[p])]),
                          fijoLabel |-> fijoLabelOf(row.hasFijo, row.hasVariable),
                          latestDate |-> row.latestDate]]
    IN  SortDescBy(values, [p \in 1..Len(values) |-> values[p].total])

buildGroupedRows(rows, options) ==
    LET keys == [i \in 1..Len(rows) |-> groupKey(rows[i], options)]
        firsts == firstsByKey(keys)
        mapped(row) ==
            [key |-> row.key,
             categoryName |->
                 IF options.byCategory THEN row.categoryName
                 ELSE IF Cardinality(row.categories) = 1
                 THEN CHOOSE c \in row.categories : TRUE
                 ELSE T_Varias,
             detailText |->
                 IF options.byDetail THEN row.detailText
                 ELSE IF Cardinality(row.details) = 1
                 THEN CHOOSE d \in row.details : TRUE
                 ELSE T_Varias,
             total |-> row.total,
             fijoLabel |-> fijoLabelOf(row.hasFijo, row.hasVariable),
             latestDate |-> row.latestDate]
        values == [p \in 1..Len(firsts) |->
                     mapped(groupedEntry(rows, keys, firsts[p]))]
    IN  SortDescBy(values, [p \in 1..Len(values) |-> values[p].total])

\* app/dashboard/page.tsx: the key is always category and detail
groupKey_page(mov) == mov.categoryName \o <<"|", "|">> \o detailOrDash(mov)

buildGroupedRows_page(rows) ==
    LET keys == [i \in 1..Len(rows) |-> groupKey_page(rows[i])]
        firsts == firstsByKey(keys)
        mapped(row) ==
            [key |-> row.key, categoryName |-> row.categoryName,
             detailText |-> row.detailText, total |-> row.total,
             fijoLabel |-> fijoLabelOf(row.hasFijo, row.hasVariable),
             latestDate |-> row.latestDate]
        values == [p \in 1..Len(firsts) |->
                     mapped(groupedEntry(rows, keys, firsts[p]))]
    IN  SortDescBy(values, [p \in 1..Len(values) |-> values[p].total])

groupIngresosActive == groupIngresosByCategory \/ groupIngresosByDetail

groupGastosActive == groupGastosByCategory \/ groupGastosByDetail

ingresosOptions ==
    [byCategory |-> groupIngresosByCategory, byDetail |-> groupIngresosByDetail]

gastosOptions ==
    [byCategory |-> groupGastosByCategory, byDetail |-> groupGastosByDetail]

groupedIngresos ==
    IF groupIngresosActive
    THEN buildGroupedRows(displayedIngresos, ingresosOptions) ELSE <<>>

groupedGastos ==
    IF groupGastosActive
    THEN buildGroupedRows(displayedGastos, gastosOptions) ELSE <<>>

ingresosQuery == normalizeQuery(searchIngresos)

gastosQuery == normalizeQuery(searchGastos)

searchedIngresosMovs == filterMovementRows(displayedIngresos, ingresosQuery)

searchedGastosMovs == filterMovementRows(displayedGastos, gastosQuery)

searchedIngresosGrouped == filterGroupedRows(groupedIngresos, ingresosQuery)

searchedGastosGrouped == filterGroupedRows(groupedGastos, gastosQuery)

filterVars == <<showIngresosFijos, showIngresosVariables, showGastosFijos,
                showGastosVariables, selectedIngresosCategory,
                selectedGastosCategory>>

MaxSearchMovs == 2

MaxGroupMovs == 3

T_panIntegral ==
    <<"p", "a", "n", " ", "i", "n", "t", "e", "g", "r", "a", "l">>

SearchTexts ==
    {<<>>, <<" ", "tab">>, T_panIntegral,
     <<" ", "C", "A", "F", "E_acute", " ">>,
     <<"2", "5", ",", "0", "0", " ", "euro">>}

\* the search <input> of the income card
SetSearchIngresos ==
    /\ \E value \in SearchTexts \ {searchIngresos} : searchIngresos' = value
    /\ UNCHANGED <<restVars, dataVars, otherVars, filterVars, searchGastos,
                   groupIngresosByCategory, groupIngresosByDetail,
                   groupGastosByCategory, groupGastosByDetail>>

SetSearchGastos ==
    /\ \E value \in SearchTexts \ {searchGastos} : searchGastos' = value
    /\ UNCHANGED <<restVars, dataVars, otherVars, filterVars, searchIngresos,
                   groupIngresosByCategory, groupIngresosByDetail,
                   groupGastosByCategory, groupGastosByDetail>>

SearchRows ==
    {RawMov(F_2024, T_Ingreso, Num(25),
            <<"P", "a", "n", " ", "tab", "i", "n", "t", "e", "g", "r", "a", "l">>,
            JsTrue, C_2),
     RawMov(F_2024, T_Ingreso, Num(-7),
            <<" ", "C", "a", "f", "e_acute", " ">>, JsNull, C_4),
     RawMov(F_2024, T_gasto, Num(25), T_panIntegral, JsFalse, C_1),
     RawMov(F_2024, T_gasto, Num(12000), Null, JsTrue, Null)}

InitSearch == store \in BoundedSeq(SearchRows, MaxSearchMovs) /\ InitState

NextSearch ==
    \/ LoadMovimientos
    \/ SetSearchIngresos
    \/ SetSearchGastos

SpecSearch == InitSearch /\ [][NextSearch]_vars

\* the text typed in the search box holds nothing but whitespace
IsBlank(value) == \A i \in 1..Len(value) : IsSpace(value[i])

\* C7: a search text that is empty or only whitespace leaves the movement
\* rows and the grouped rows as they are: the same elements in the same
\* order.
C7_BlankQueryNoOp ==
    /\ IsBlank(searchIngresos) =>
           /\ searchedIngresosMovs = displayedIngresos
           /\ searchedIngresosGrouped = groupedIngresos
    /\ IsBlank(searchGastos) =>
           /\ searchedGastosMovs = displayedGastos
           /\ searchedGastosGrouped = groupedGastos

\* a whitespace-only, non-empty search text over non-empty lists
C7_Witness ==
    /\ IsBlank(searchIngresos) /\ searchIngresos # <<>>
    /\ Len(displayedIngresos) = 2
    /\ groupedIngresos # <<>>

\* C8: a row is kept by the search iff the normalized query is a substring
\* of the searched text of the row normalized in the same way as the query:
\* lower case, no combining marks, runs of whitespace collapsed to one space.
C8_SameNormalization ==
    LET rows == displayedIngresos
        query == ingresosQuery
        found == searchedIngresosMovs
    IN  \A i \in 1..Len(rows) :
            (\E j \in 1..Len(found) : found[j] = rows[i])
                <=> includes(normalizeQuery(movementSearchText(rows[i])), query)

-----------------------------------------------------------------------------
(* Grouping over lists that share categories and details *)

\* the group toggles of the two cards: setGroup...((prev) => !prev)
ToggleGroupIngresosByCategory ==
    /\ groupIngresosByCategory' = ~groupIngresosByCategory
    /\ UNCHANGED <<restVars, dataVars, otherVars, filterVars, searchIngresos,
                   searchGastos, groupIngresosByDetail,
                   groupGastosByCategory, groupGastosByDetail>>

ToggleGroupIngresosByDetail ==
    /\ groupIngresosByDetail' = ~groupIngresosByDetail
    /\ UNCHANGED <<restVars, dataVars, otherVars, filterVars, searchIngresos,
                   searchGastos, groupIngresosByCategory,
                   groupGastosByCategory, groupGastosByDetail>>

ToggleGroupGastosByCategory ==
    /\ groupGastosByCategory' = ~groupGastosByCategory
    /\ UNCHANGED <<restVars, dataVars, otherVars, filterVars, searchIngresos,
                   searchGastos, groupIngresosByCategory,
                   groupIngresosByDetail, groupGastosByDetail>>

ToggleGroupGastosByDetail ==
    /\ groupGastosByDetail' = ~groupGastosByDetail
    /\ UNCHANGED <<restVars, dataVars, otherVars, filterVars, searchIngresos,
                   searchGastos, groupIngresosByCategory,
                   groupIngresosByDetail, groupGastosByCategory>>

T_pan == <<"p", "a", "n">>

GroupRows ==
    {RawMov(F_2024, T_Ingreso, Num(10), T_pan, JsTrue, C_2),
     RawMov(<<"2", "0", "2", "4", "-", "0", "3", "-", "0", "1">>, T_Ingreso,
            Num(-20), T_pan, JsNull, C_2),
     RawMov(F_2024, T_Ingreso, NoNum, Null, JsFalse, C_4),
     RawMov(F_2024, T_gasto, Num(10), T_pan, JsTrue, C_1)}

InitGroup == store \in BoundedSeq(GroupRows, MaxGroupMovs) /\ InitState

NextGroup ==
    \/ LoadMovimientos
    \/ ToggleGroupIngresosByCategory
    \/ ToggleGroupIngresosByDetail
    \/ ToggleGroupGastosByCategory
    \/ ToggleGroupGastosByDetail

SpecGroup == InitGroup /\ [][NextGroup]_vars

\* the rows of a list that fall in the bucket of a key
BucketOf(rows, keyOf(_), key) == {i \in 1..Len(rows) : keyOf(rows[i]) = key}

\* the sum of |importe ?? 0| over the rows with the given indexes
MagnitudeSum(rows, indexes) ==
    SumSeq([i \in 1..Len(rows) |->
              IF i \in indexes THEN Abs(NumberOr0(rows[i].importe)) ELSE 0])

\* C9: for every combination of the grouping flags the totals of the grouped
\* rows add up to the sum of |importe ?? 0| over the input, and every input
\* movement is counted in exactly one grouped row; so it is for the grouping
\* of app/dashboard/page.tsx.
C9_GroupedTotals ==
    LET ok(rows, grouped, keyOf(_)) ==
            /\ SumSeq([g \in 1..Len(grouped) |-> grouped[g].total])
                   = MagnitudeSum(rows, 1..Len(rows))
            /\ \A i \in 1..Len(rows) :
                   Cardinality({g \in 1..Len(grouped) :
                                   grouped[g].key = keyOf(rows[i])}) = 1
            /\ \A g \in 1..Len(grouped) :
                   grouped[g].total
                       = MagnitudeSum(rows, BucketOf(rows, keyOf, grouped[g].key))
        okFor(rows) ==
            /\ \A options \in GroupingOptions :
                   ok(rows, buildGroupedRows(rows, options),
                      LAMBDA mov : groupKey(mov, options))
            /\ ok(rows, buildGroupedRows_page(rows), groupKey_page)
    IN  /\ okFor(displayedIngresos)
        /\ okFor(displayedGastos)
        /\ groupIngresosActive =>
               groupedIngresos = buildGroupedRows(displayedIngresos,
                                                  ingresosOptions)

\* three incomes grouped by category only into two rows
C9_Witness ==
    /\ groupIngresosByCategory /\ ~groupIngresosByDetail
    /\ Len(displayedIngresos) = 3
    /\ Len(groupedIngresos) = 2
    /\ \E g \in 1..2 : groupedIngresos[g].total = 30

\* C10: the fijoLabel of a grouped row is "Mixto" iff its bucket holds a
\* movement with fijo === true and one with fijo !== true, "Sí" iff every
\* movement of the bucket has fijo === true, and "No" iff none has.
C10_FijoLabel ==
    LET ok(rows, options) ==
            LET grouped == buildGroupedRows(rows, options)
                keyOf(mov) == groupKey(mov, options)
            IN  \A g \in 1..Len(grouped) :
                    LET bucket == BucketOf(rows, keyOf, grouped[g].key)
                        fijos == {i \in bucket : rows[i].fijo = JsTrue}
                    IN  /\ bucket # {}
                        /\ grouped[g].fijoLabel = T_Mixto
                               <=> fijos # {} /\ fijos # bucket
                        /\ grouped[g].fijoLabel = T_Si <=> fijos = bucket
                        /\ grouped[g].fijoLabel = T_No <=> fijos = {}
    IN  \A options \in GroupingOptions :
            ok(displayedIngresos, options) /\ ok(displayedGastos, options)

\* grouped by category only, a row labelled "Mixto" next to a row labelled "No"
C10_Witness ==
    /\ groupIngresosByCategory /\ ~groupIngresosByDetail
    /\ \E g \in 1..Len(groupedIngresos) : groupedIngresos[g].fijoLabel = T_Mixto
    /\ \E g \in 1..Len(groupedIngresos) : groupedIngresos[g].fijoLabel = T_No

-----------------------------------------------------------------------------
(* Sorting of the income and expense tables *)

MaxSortMovs == 2

SortKeys == {"fecha", "categoria", "detalle", "fijo", "importe"}

SortStates == [key : SortKeys, direction : {"asc", "desc"}]

\* toggleSort with a fault: a new key always starts ascending
toggleSort_asc(current, nextKey) ==
    IF current.key = nextKey
    THEN [key |-> nextKey,
          direction |-> IF current.direction = "asc" THEN "desc" ELSE "asc"]
    ELSE [key |-> nextKey, direction |-> "asc"]

\* the state toggleSort hands to the setter
toggleSort(current, nextKey) ==
    IF current.key = nextKey
    THEN [key |-> nextKey,
          direction |-> IF current.direction = "asc" THEN "desc" ELSE "asc"]
    ELSE [key |-> nextKey,
          direction |-> IF nextKey = "importe" THEN "desc" ELSE "asc"]

\* a click on a column header of the income table
ToggleSortIngresos ==
    /\ \E nextKey \in SortKeys :
           sortIngresos' = toggleSort(sortIngresos, nextKey)
    /\ UNCHANGED <<restVars, dataVars, yearlyVars, filterVars, searchGroupVars,
                   sortGastos, chartVars, editorCategorias,
                   editorMovimientos>>

\* a click on a column header of the expense table
ToggleSortGastos ==
    /\ \E nextKey \in SortKeys :
           sortGastos' = toggleSort(sortGastos, nextKey)
    /\ UNCHANGED <<restVars, dataVars, yearlyVars, filterVars, searchGroupVars,
                   sortIngresos, chartVars, editorCategorias,
                   editorMovimientos>>

\* a.localeCompare(b, "es-ES", { sensitivity: "base" })
compareText(a, b) ==
    IF LocaleLess(a, b) THEN -1 ELSE IF LocaleLess(b, a) THEN 1 ELSE 0

\* Date.parse(mov.fecha) || 0, in days
sortFechaValue(mov) ==
    IF DateParse(mov.fecha) = <<>> THEN 0 ELSE DateParse(mov.fecha)[1]

\* valueA - valueB, or compareText(valueA, valueB), of sortMovements
movementPrimary(a, b, key) ==
    CASE key = "fecha" -> sortFechaValue(a) - sortFechaValue(b)
      [] key = "categoria" -> compareText(a.categoryName, b.categoryName)
      [] key = "detalle" -> compareText(Coalesce(a.detailText, <<>>),
                                        Coalesce(b.detailText, <<>>))
      [] key = "fijo" -> (IF a.fijo = JsTrue THEN 1 ELSE 0)
                             - (IF b.fijo = JsTrue THEN 1 ELSE 0)
      [] OTHER -> Magnitude(a) - Magnitude(b)

\* the comparator of sortMovements for the elements at indexes ia and ib
movementCompare(a, ia, b, ib, sort) ==
    LET primary == movementPrimary(a, b, sort.key)
        result == IF sort.direction = "desc" THEN 0 - primary ELSE primary
        secondary == Magnitude(b) - Magnitude(a)
    IN  IF result = 0 /\ sort.key # "importe" /\ secondary # 0
        THEN secondary
        ELSE IF result # 0 THEN result ELSE ia - ib

\* sortMovements with a fault: no tie-break by amount
sortMovements_noSecondary(rows, sort) ==
    LET n == Len(rows)
        cmp(j, i) ==
            LET primary == movementPrimary(rows[j], rows[i], sort.key)
                result == IF sort.direction = "desc" THEN 0 - primary
                          ELSE primary
            IN  IF result # 0 THEN result ELSE j - i
        rank(i) == Cardinality({j \in 1..n : cmp(j, i) < 0}) + 1
    IN  [p \in 1..n |-> rows[CHOOSE i \in 1..n : rank(i) = p]]

\* sortMovements with a fault: ties are broken by the later index first
sortMovements_lastFirst(rows, sort) ==
    LET n == Len(rows)
        cmp(j, i) ==
            LET c == movementCompare(rows[j], j, rows[i], i, sort)
            IN  IF movementCompare(rows[j], 1, rows[i], 1, sort) = 0
                THEN i - j ELSE c
        rank(i) == Cardinality({j \in 1..n : cmp(j, i) < 0}) + 1
    IN  [p \in 1..n |-> rows[CHOOSE i \in 1..n : rank(i) = p]]

\* the comparator is a strict total order on the indexed elements, so the
\* sorted array is the one arrangement in which every element is preceded
\* by those that compare before it
sortMovements(rows, sort) ==
    LET n == Len(rows)
        rank(i) ==
            Cardinality({j \in 1..n :
                movementCompare(rows[j], j, rows[i], i, sort) < 0}) + 1
    IN  [p \in 1..n |-> rows[CHOOSE i \in 1..n : rank(i) = p]]

fijoRank(label) ==
    IF label = T_Si THEN 2 ELSE IF label = T_Mixto THEN 1 ELSE 0

groupedPrimary(a, b, key) ==
    CASE key = "fecha" -> a.latestDate - b.latestDate
      [] key = "categoria" -> compareText(a.categoryName, b.categoryName)
      [] key = "detalle" -> compareText(a.detailText, b.detailText)
      [] key = "fijo" -> fijoRank(a.fijoLabel) - fijoRank(b.fijoLabel)
      [] OTHER -> a.total - b.total

groupedCompare(a, ia, b, ib, sort) ==
    LET primary == groupedPrimary(a, b, sort.key)
        result == IF sort.direction = "desc" THEN 0 - primary ELSE primary
        secondary == b.total - a.total
    IN  IF result = 0 /\ sort.key # "importe" /\ secondary # 0
        THEN secondary
        ELSE IF result # 0 THEN result ELSE ia - ib

sortGrouped(rows, sort) ==
    LET n == Len(rows)
        rank(i) ==
            Cardinality({j \in 1..n :
                groupedCompare(rows[j], j, rows[i], i, sort) < 0}) + 1
    IN  [p \in 1..n |-> rows[CHOOSE i \in 1..n : rank(i) = p]]

sortedIngresosMovs == sortMovements(searchedIngresosMovs, sortIngresos)

sortedGastosMovs == sortMovements(searchedGastosMovs, sortGastos)

sortedIngresosGrouped == sortGrouped(searchedIngresosGrouped, sortIngresos)

sortedGastosGrouped == sortGrouped(searchedGastosGrouped, sortGastos)

F_2024_03 == <<"2", "0", "2", "4", "-", "0", "3", "-", "0", "1">>

\* a fecha Date.parse gives NaN for
F_unparseable == <<"2", "0", "2", "4", "-", "0", "6", "-", "x", "x">>

SortRows ==
    {RawMov(F_2024, T_Ingreso, Num(10), T_pan, JsTrue, C_2),
     RawMov(F_2024_03, T_Ingreso, Num(-20), <<"P", "a", "n">>, JsNull, C_2),
     RawMov(F_unparseable, T_Ingreso, Num(10), Null, JsFalse, C_4),
     RawMov(F_2024, T_gasto, Num(10), T_pan, JsTrue, C_1)}

InitSort == store \in BoundedSeq(SortRows, MaxSortMovs) /\ InitState

NextSort ==
    \/ LoadMovimientos
    \/ ToggleSortIngresos
    \/ ToggleSortGastos

SpecSort == InitSort /\ [][NextSort]_vars

Reverse(s) == [i \in 1..Len(s) |-> s[Len(s) + 1 - i]]

\* out is in with its elements rearranged
IsPermutation(in, out) ==
    /\ Len(in) = Len(out)
    /\ \E f \in [1..Len(in) -> 1..Len(in)] :
           /\ \A i, j \in 1..Len(in) : i # j => f[i] # f[j]
           /\ \A i \in 1..Len(in) : out[i] = in[f[i]]

\* the position of the row in a list of rows that differ from one another
IndexIn(rows, row) == CHOOSE i \in 1..Len(rows) : rows[i] = row

\* C11: for every sort key but importe and both directions, sortMovements and
\* sortGrouped return a permutation of the input ordered by the primary key
\* in the requested direction, rows equal in the primary key by descending
\* amount, and rows equal in both in their input order, whatever the
\* direction is.
C11_SortTieBreaks ==
    LET ordered(in, out, sort, primary(_, _, _), amount(_)) ==
            /\ IsPermutation(in, out)
            /\ \A j, k \in 1..Len(out) : j < k =>
                   LET p == primary(out[j], out[k], sort.key)
                   IN  /\ IF sort.direction = "desc" THEN p >= 0 ELSE p <= 0
                       /\ p = 0 => amount(out[j]) >= amount(out[k])
                       /\ p = 0 /\ amount(out[j]) = amount(out[k])
                              => IndexIn(in, out[j]) < IndexIn(in, out[k])
        okMovs(in, sort) ==
            sort.key # "importe" =>
                ordered(in, sortMovements(in, sort), sort, movementPrimary,
                        Magnitude)
        okGrouped(in, sort) ==
            sort.key # "importe" =>
                ordered(in, sortGrouped(in, sort), sort, groupedPrimary,
                        LAMBDA row : row.total)
    IN  /\ okMovs(searchedIngresosMovs, sortIngresos)
        /\ okMovs(Reverse(searchedIngresosMovs), sortIngresos)
        /\ okMovs(searchedGastosMovs, sortGastos)
        /\ okGrouped(searchedIngresosGrouped, sortIngresos)
        /\ okGrouped(Reverse(searchedIngresosGrouped), sortIngresos)
        /\ okGrouped(searchedGastosGrouped, sortGastos)

\* the income table sorted by category, descending, over two rows of one
\* category with different amounts
C11_Witness ==
    /\ sortIngresos = [key |-> "categoria", direction |-> "desc"]
    /\ Len(sortedIngresosMovs) = 2
    /\ sortedIngresosMovs[1].categoryName = sortedIngresosMovs[2].categoryName
    /\ sortedIngresosMovs[1].sortValue > sortedIngresosMovs[2].sortValue

\* C12: sorting by importe, descending, a list that is in descending order
\* of amount (the classified lists, the grouped rows) returns it as it is,
\* rows of equal amount included.
C12_ImporteDescNoOp ==
    LET sort == [key |-> "importe", direction |-> "desc"]
        rows == movimientoRows
    IN  /\ sortMovements(rows.ingresos, sort) = rows.ingresos
        /\ sortMovements(rows.gastos, sort) = rows.gastos
        /\ sortMovements(searchedIngresosMovs, sort) = searchedIngresosMovs
        /\ \A options \in GroupingOptions :
               LET grouped == buildGroupedRows(rows.ingresos, options)
               IN  sortGrouped(grouped, sort) = grouped
        /\ sortIngresos = sort => sortedIngresosMovs = searchedIngresosMovs
        /\ sortGastos = sort => sortedGastosMovs = searchedGastosMovs

\* two incomes of the same amount under the initial sort state
C12_Witness ==
    /\ sortIngresos = [key |-> "importe", direction |-> "desc"]
    /\ Len(sortedIngresosMovs) = 2
    /\ sortedIngresosMovs[1].sortValue = sortedIngresosMovs[2].sortValue
    /\ sortedIngresosMovs[1].categoryName # sortedIngresosMovs[2].categoryName

\* the step from current to next is the one toggleSort makes for next.key
ToggleRule(current, next) ==
    IF next.key = current.key
    THEN next.direction # current.direction
    ELSE next.direction = (IF next.key = "importe" THEN "desc" ELSE "asc")

\* C13: the sort states start at (importe, desc); a click on the current key
\* keeps the key and flips the direction, a click on another key gives that
\* key with desc for importe and asc for the others; a click on one card
\* leaves the sort state of the other card as it is.
C13_ToggleSort ==
    /\ sortIngresos = [key |-> "importe", direction |-> "desc"]
    /\ sortGastos = [key |-> "importe", direction |-> "desc"]
    /\ [][/\ sortIngresos' # sortIngresos =>
                 ToggleRule(sortIngresos, sortIngresos')
                     /\ sortGastos' = sortGastos
          /\ sortGastos' # sortGastos =>
                 ToggleRule(sortGastos, sortGastos')
                     /\ sortIngresos' = sortIngresos]_vars

\* the income card sorted by fecha after two clicks, the expense card by
\* importe after a change of key and a return
C13_Witness ==
    /\ sortIngresos = [key |-> "fecha", direction |-> "desc"]
    /\ sortGastos = [key |-> "importe", direction |-> "asc"]

-----------------------------------------------------------------------------
(* DashboardPage: the chart by category                                    *)

MaxChartMovs == 3

\* the rows the forEach of chartData does not return early from
chartCounted(mov, showFijos, showVariables) ==
    IF mov.fijo = JsTrue THEN showFijos ELSE showVariables

\* `${mov.kind}:${category}`
chartKey(mov) == mov.kind \o <<":">> \o mov.categoryName

\* the Map entry of the key created by rows[f], after the forEach
chartRow(rows, keys, f) ==
    LET part(fixed) ==
            SumSeq([i \in 1..Len(rows) |->
                      IF keys[i] = keys[f] /\ (rows[i].fijo = JsTrue) = fixed
                      THEN Magnitude(rows[i]) ELSE 0])
    IN  [category |-> rows[f].categoryName, kind |-> rows[f].kind,
         fijo |-> part(TRUE), variable |-> part(FALSE),
         total |-> part(TRUE) + part(FALSE)]

\* chartData with a fault: the rows whose total is 0 are kept
chartDataOf_keepZero(allRows, showFijos, showVariables) ==
    LET rows == SelectSeq(allRows, LAMBDA mov :
                    chartCounted(mov, showFijos, showVariables))
        keys == [i \in 1..Len(rows) |-> chartKey(rows[i])]
        firsts == firstsByKey(keys)
        grouped == [p \in 1..Len(firsts) |-> chartRow(rows, keys, firsts[p])]
        sorted(list) == SortDescBy(list, [p \in 1..Len(list) |-> list[p].total])
    IN  [ingresos |-> sorted(SelectSeq(grouped, LAMBDA row :
                                 row.kind = T_ingreso)),
         gastos |-> sorted(SelectSeq(grouped, LAMBDA row :
                               row.kind # T_ingreso))]

\* the body of the chartData memo
chartDataOf(allRows, showFijos, showVariables) ==
    LET rows == SelectSeq(allRows, LAMBDA mov :
                    chartCounted(mov, showFijos, showVariables))
        keys == [i \in 1..Len(rows) |-> chartKey(rows[i])]
        firsts == firstsByKey(keys)
        grouped == [p \in 1..Len(firsts) |-> chartRow(rows, keys, firsts[p])]
        shown == SelectSeq(grouped, LAMBDA row : row.total # 0)
        sorted(list) == SortDescBy(list, [p \in 1..Len(list) |-> list[p].total])
    IN  [ingresos |-> sorted(SelectSeq(shown, LAMBDA row :
                                 row.kind = T_ingreso)),
         gastos |-> sorted(SelectSeq(shown, LAMBDA row :
                               row.kind # T_ingreso))]

chartData ==
    chartDataOf(movimientoRows.ingresos \o movimientoRows.gastos,
                showChartFijos, showChartVariables)

\* the value of a segment in a chart: matching ? (fijo ? matching.fijo :
\* matching.variable) : 0
segmentValue(chart, segment) ==
    LET source == IF segment.kind = T_ingreso THEN chart.ingresos
                  ELSE chart.gastos
        matches == {i \in 1..Len(source) :
                       source[i].category = segment.category}
        matching == source[CHOOSE i \in matches : \A j \in matches : i <= j]
    IN  IF matches = {} THEN 0
        ELSE IF segment.fijo THEN matching.fijo ELSE matching.variable

\* null (<<>>) unless the selected segment has a non-zero value in the chart
activeSegmentOf(chart, selected) ==
    IF selected = <<>> THEN <<>>
    ELSE IF segmentValue(chart, selected[1]) = 0 THEN <<>>
    ELSE selected

activeSelectedSegment == activeSegmentOf(chartData, selectedSegment)

\* the movements of the drill-down of a segment
selectedMovimientosOf(segment, rows) ==
    IF segment = <<>> THEN <<>>
    ELSE LET source == IF segment[1].kind = T_ingreso THEN rows.ingresos
                       ELSE rows.gastos
         IN  SelectSeq(source, LAMBDA mov :
                 /\ mov.categoryName = segment[1].category
                 /\ segment[1].fijo <=> (mov.fijo = JsTrue))

selectedMovimientos ==
    selectedMovimientosOf(activeSelectedSegment, movimientoRows)

tableVars == <<filterVars, searchGroupVars, sortVars>>

\* the "Fijos" checkbox of the chart
SetShowChartFijos ==
    /\ \E checked \in BOOLEAN \ {showChartFijos} : showChartFijos' = checked
    /\ UNCHANGED <<restVars,
                   dataVars, yearlyVars, tableVars, showChartVariables,
                   selectedSegment, editorCategorias, editorMovimientos>>

\* the "Variables" checkbox of the chart
SetShowChartVariables ==
    /\ \E checked \in BOOLEAN \ {showChartVariables} :
           showChartVariables' = checked
    /\ UNCHANGED <<restVars, dataVars, yearlyVars, tableVars, showChartFijos,
                   selectedSegment, editorCategorias, editorMovimientos>>

\* the segments of a chart that carry an onClick handler
Clickable(chart) ==
    {[kind |-> chart.ingresos[i].kind, fijo |-> TRUE,
      category |-> chart.ingresos[i].category] :
         i \in {j \in 1..Len(chart.ingresos) : chart.ingresos[j].fijo > 0}}
    \cup {[kind |-> chart.ingresos[i].kind, fijo |-> FALSE,
           category |-> chart.ingresos[i].category] :
         i \in {j \in 1..Len(chart.ingresos) : chart.ingresos[j].variable > 0}}
    \cup {[kind |-> chart.gastos[i].kind, fijo |-> TRUE,
           category |-> chart.gastos[i].category] :
         i \in {j \in 1..Len(chart.gastos) : chart.gastos[j].fijo > 0}}
    \cup {[kind |-> chart.gastos[i].kind, fijo |-> FALSE,
           category |-> chart.gastos[i].category] :
         i \in {j \in 1..Len(chart.gastos) : chart.gastos[j].variable > 0}}

\* a click on a segment of a bar
SelectSegment ==
    /\ \E segment \in Clickable(chartData) :
           /\ selectedSegment # <<segment>>
           /\ selectedSegment' = <<segment>>
    /\ UNCHANGED <<restVars, dataVars, yearlyVars, tableVars, showChartFijos,
                   showChartVariables, editorCategorias, editorMovimientos>>

\* the "Limpiar selección" button, rendered while a segment is active
ClearSegment ==
    /\ activeSelectedSegment # <<>>
    /\ selectedSegment' = <<>>
    /\ UNCHANGED <<restVars, dataVars, yearlyVars, tableVars, showChartFijos,
                   showChartVariables, editorCategorias, editorMovimientos>>

ChartRows ==
    {RawMov(F_2024, T_Ingreso, Num(10), T_pan, JsTrue, C_2),
     RawMov(F_2024_03, T_Ingreso, Num(-15), Null, JsNull, C_4),
     RawMov(F_unparseable, T_Ingreso, Num(10), T_pan, JsFalse, C_2),
     RawMov(F_2024, T_gasto, NoNum, Null, JsTrue, C_1),
     RawMov(F_2024_03, T_gasto, Num(5), T_pan, JsNull, C_1)}

InitChart == store \in BoundedSeq(ChartRows, MaxChartMovs) /\ InitState

NextChart ==
    \/ LoadMovimientos
    \/ SelectYear
    \/ SetShowChartFijos
    \/ SetShowChartVariables
    \/ SelectSegment
    \/ ClearSegment

SpecChart == InitChart /\ [][NextChart]_vars

\* the (kind, category) pairs of a list of classified movements
ChartPairs(rows) ==
    {<<rows[i].kind, rows[i].categoryName>> : i \in 1..Len(rows)}

\* the sum of the magnitudes of the movements of a pair with a fixed flag
PairSum(rows, pair, fixed) ==
    SumSeq([i \in 1..Len(rows) |->
              IF /\ rows[i].kind = pair[1]
                 /\ rows[i].categoryName = pair[2]
                 /\ (rows[i].fijo = JsTrue) = fixed
              THEN Magnitude(rows[i]) ELSE 0])

\* C14: for every (kind, category) pair the chart row's fijo is the sum of
\* the magnitudes of the pair's movements with fijo === true when the
\* show-fixed toggle is on (0 otherwise), variable is the sum over the others
\* when the show-variable toggle is on (0 otherwise), total = fijo +
\* variable; a row appears iff its total is non-zero, once, in the list of its
\* kind, and each list is in descending order of total.
C14_ChartData ==
    LET rows == movimientoRows
        all == rows.ingresos \o rows.gastos
        chart == chartDataOf(all, showChartFijos, showChartVariables)
        fijo(pair) == IF showChartFijos THEN PairSum(all, pair, TRUE) ELSE 0
        variable(pair) ==
            IF showChartVariables THEN PairSum(all, pair, FALSE) ELSE 0
        listOf(kind) == IF kind = T_ingreso THEN chart.ingresos
                        ELSE chart.gastos
        other(kind) == IF kind = T_ingreso THEN chart.gastos
                       ELSE chart.ingresos
        at(list, category) ==
            {i \in 1..Len(list) : list[i].category = category}
        descending(list) ==
            \A i \in 1..(Len(list) - 1) : list[i].total >= list[i + 1].total
    IN  /\ \A pair \in ChartPairs(all) :
               LET here == at(listOf(pair[1]), pair[2])
               IN  /\ Cardinality(here) =
                          (IF fijo(pair) + variable(pair) # 0 THEN 1 ELSE 0)
                   /\ \A i \in here :
                          LET row == listOf(pair[1])[i]
                          IN  /\ row.kind = pair[1]
                              /\ row.fijo = fijo(pair)
                              /\ row.variable = variable(pair)
                              /\ row.total = row.fijo + row.variable
                   /\ \A i \in at(other(pair[1]), pair[2]) :
                          <<other(pair[1])[i].kind, pair[2]>>
                              \in ChartPairs(all)
        /\ \A kind \in {T_ingreso, T_gasto} :
               \A i \in 1..Len(listOf(kind)) :
                   /\ listOf(kind)[i].kind = kind
                   /\ <<kind, listOf(kind)[i].category>> \in ChartPairs(all)
        /\ descending(chart.ingresos)
        /\ descending(chart.gastos)

\* a chart whose order is not the insertion order of the Map, its first row
\* holding both a fixed and a variable part
C14_Witness ==
    LET rows == movimientoRows
        all == rows.ingresos \o rows.gastos
        chart == chartDataOf(all, showChartFijos, showChartVariables)
    IN  /\ Len(chart.ingresos) = 2
        /\ chart.ingresos[1].fijo > 0
        /\ chart.ingresos[1].variable > 0
        /\ all[1].categoryName = chart.ingresos[2].category
        /\ chart.ingresos[1].total > chart.ingresos[2].total

\* the drill-down is driven by a segment with a non-zero value in the current
\* chart, or by none (DashboardPage with activeSelectedSegment)
ActiveSegmentOnly ==
    LET rows == movimientoRows
        chart == chartDataOf(rows.ingresos \o rows.gastos, showChartFijos,
                             showChartVariables)
        active == activeSegmentOf(chart, selectedSegment)
        shown == selectedMovimientosOf(active, rows)
    IN  /\ active # <<>> =>
               /\ active = selectedSegment
               /\ segmentValue(chart, active[1]) # 0
               /\ shown # <<>>
        /\ active = <<>> => shown = <<>>
        /\ selectedSegment # <<>> /\ segmentValue(chart, selectedSegment[1]) = 0
               => active = <<>>

\* a selected segment that has no value in the current chart
StaleSegment ==
    /\ selectedSegment # <<>>
    /\ segmentValue(chartData, selectedSegment[1]) = 0
    /\ selectedMovimientosOf(selectedSegment, movimientoRows) # <<>>

-----------------------------------------------------------------------------
(* app/dashboard/page.tsx: the variant that clears the selected segment in *)
(* an effect                                                               *)

chartData_page ==
    chartDataOf(movimientoRows_page.ingresos \o movimientoRows_page.gastos,
                showChartFijos, showChartVariables)

\* selectedMovimientos of page.tsx reads selectedSegment itself
selectedMovimientos_page ==
    selectedMovimientosOf(selectedSegment, movimientoRows_page)

SelectSegment_page ==
    /\ \E segment \in Clickable(chartData_page) :
           /\ selectedSegment # <<segment>>
           /\ selectedSegment' = <<segment>>
    /\ UNCHANGED <<restVars, dataVars, yearlyVars, tableVars, showChartFijos,
                   showChartVariables, editorCategorias, editorMovimientos>>

\* the "Limpiar selección" button, rendered while a segment is selected
ClearSegment_page ==
    /\ selectedSegment # <<>>
    /\ selectedSegment' = <<>>
    /\ UNCHANGED <<restVars, dataVars, yearlyVars, tableVars, showChartFijos,
                   showChartVariables, editorCategorias, editorMovimientos>>

\* useEffect(..., [chartData, selectedSegment]): runs after the render that
\* computed selectedMovimientos has been committed
ClearStaleSegment_page ==
    /\ selectedSegment # <<>>
    /\ segmentValue(chartData_page, selectedSegment[1]) = 0
    /\ selectedSegment' = <<>>
    /\ UNCHANGED <<restVars, dataVars, yearlyVars, tableVars, showChartFijos,
                   showChartVariables, editorCategorias, editorMovimientos>>

NextChart_page ==
    \/ LoadMovimientos_page
    \/ SetShowChartFijos
    \/ SetShowChartVariables
    \/ SelectSegment_page
    \/ ClearSegment_page
    \/ ClearStaleSegment_page

SpecChart_page == InitChart /\ [][NextChart_page]_vars

\* C15: in every rendered state, after any sequence of segment clicks, chart
\* toggle changes and data reloads, the drill-down is driven only by a segment
\* that is still active: a selected segment with no row in the current chart,
\* or with a zero value there, gives a null effective selection and a
\* drill-down without movements.
C15_ActiveSegmentOnly ==
    LET rows == movimientoRows_page
        chart == chartDataOf(rows.ingresos \o rows.gastos, showChartFijos,
                             showChartVariables)
    IN  selectedSegment # <<>> /\ segmentValue(chart, selectedSegment[1]) = 0
            => selectedMovimientosOf(selectedSegment, rows) = <<>>

-----------------------------------------------------------------------------
(* DashboardPage: the monthly drill-down of the selected segment           *)

\* new Date(fecha).getMonth(): NaN (<<>>) for an invalid date, else the month
\* 0..11 of the local calendar day. A date-only string is midnight UTC, so
\* in a time zone west of Greenwich the local day is the day before.
getMonth(fecha, west) ==
    IF fecha = Null THEN <<IF west THEN 11 ELSE 0>>
    ELSE IF DateParse(fecha) = <<>> THEN <<>>
    ELSE LET month == DigitsValue(SubSeq(fecha, 6, 7))
             day == DigitsValue(SubSeq(fecha, 9, 10))
         IN  <<IF west /\ day = 1 THEN (month + 10) % 12 ELSE month - 1>>

\* mov.detailText ?? "Sin detalle"
detailOrPlaceholder(mov) == Coalesce(mov.detailText, T_sinDetalle)

\* the group of the month with the given index, after the forEach
detailGroup(movs, monthIndex, west) ==
    LET rows == SelectSeq(movs, LAMBDA mov :
                    getMonth(mov.fecha, west) = <<monthIndex>>)
        keys == [i \in 1..Len(rows) |-> detailOrPlaceholder(rows[i])]
        firsts == firstsByKey(keys)
        entries == [p \in 1..Len(firsts) |->
                      [detail |-> keys[firsts[p]],
                       total |-> SumSeq([i \in 1..Len(rows) |->
                                    IF keys[i] = keys[firsts[p]]
                                    THEN Magnitude(rows[i]) ELSE 0])]]
        items == SortDescBy(entries, [p \in 1..Len(entries) |->
                                        entries[p].total])
    IN  [monthIndex |-> monthIndex, items |-> items,
         total |-> SumSeq([p \in 1..Len(items) |-> items[p].total])]

\* the body of the detailGroups memo in a browser whose time zone is west of
\* Greenwich or not; byMonth[NaN] is undefined and bucket.set throws a
\* TypeError
detailGroupsOf(active, movs, west) ==
    IF active = <<>> THEN [threw |-> FALSE, groups |-> <<>>]
    ELSE IF \E i \in 1..Len(movs) : getMonth(movs[i].fecha, west) = <<>>
    THEN [threw |-> TRUE, groups |-> <<>>]
    ELSE [threw |-> FALSE,
          groups |-> SelectSeq([m \in 1..12 |->
                                   detailGroup(movs, m - 1, west)],
                               LAMBDA group : group.total > 0)]

detailGroups(west) ==
    detailGroupsOf(activeSelectedSegment, selectedMovimientos, west)

\* the month 0..11 written in a fecha
CalendarMonth(fecha) == DigitsValue(SubSeq(fecha, 6, 7)) - 1

\* C16: for an active segment, each movement matching the segment's kind,
\* category and fixed flag adds its magnitude to the entry of its detail text
\* ("Sin detalle" when absent) in the bucket of its calendar month (0..11);
\* months whose total is zero are dropped, the items of each month are in
\* descending order of total, each month's total is the sum of its items, and
\* the sum of all item totals is the sum of the magnitudes of the matching
\* movements.
C16_DetailGroups ==
    LET rows == movimientoRows
        chart == chartDataOf(rows.ingresos \o rows.gastos, showChartFijos,
                             showChartVariables)
        active == activeSegmentOf(chart, selectedSegment)
        movs == selectedMovimientosOf(active, rows)
        expected(month, detail) ==
            SumSeq([i \in 1..Len(movs) |->
                      IF /\ CalendarMonth(movs[i].fecha) = month
                         /\ detailOrPlaceholder(movs[i]) = detail
                      THEN Magnitude(movs[i]) ELSE 0])
        details == {detailOrPlaceholder(movs[i]) : i \in 1..Len(movs)}
    IN  active # <<>> =>
            \A west \in BOOLEAN :
                LET result == detailGroupsOf(active, movs, west)
                    groups == result.groups
                    itemsAt(month, detail) ==
                        {<<g, p>> \in (1..Len(groups)) \X (1..Len(movs)) :
                            /\ groups[g].monthIndex = month
                            /\ p <= Len(groups[g].items)
                            /\ groups[g].items[p].detail = detail}
                IN  /\ ~result.threw
                    /\ \A month \in 0..11 : \A detail \in details :
                           IF expected(month, detail) = 0
                           THEN \A at \in itemsAt(month, detail) :
                                    groups[at[1]].items[at[2]].total = 0
                           ELSE \E at \in itemsAt(month, detail) :
                                    /\ itemsAt(month, detail) = {at}
                                    /\ groups[at[1]].items[at[2]].total =
                                           expected(month, detail)
                    /\ \A g \in 1..Len(groups) :
                           /\ groups[g].total > 0
                           /\ groups[g].total =
                                  SumSeq([p \in 1..Len(groups[g].items) |->
                                            groups[g].items[p].total])
                           /\ \A p \in 1..(Len(groups[g].items) - 1) :
                                  groups[g].items[p].total >=
                                      groups[g].items[p + 1].total
                    /\ SumSeq([g \in 1..Len(groups) |-> groups[g].total]) =
                           SumSeq([i \in 1..Len(movs) |-> Magnitude(movs[i])])

\* C17: no derivation throws on poor-quality data: with movements that have an
\* unparseable date, a null amount, a null detail or no category name, the
\* drill-down bucketing completes with a result like the classification, the
\* sorting and the chart aggregation do; an unparseable date is 0 for the
\* ordering and the movement stays in the listings.
C17_NoThrow ==
    LET rows == movimientoRows
        chart == chartDataOf(rows.ingresos \o rows.gastos, showChartFijos,
                             showChartVariables)
        active == activeSegmentOf(chart, selectedSegment)
        movs == selectedMovimientosOf(active, rows)
        all == rows.ingresos \o rows.gastos
        byFecha == [key |-> "fecha", direction |-> "asc"]
    IN  /\ Len(all) = Len(movimientos)
        /\ \A i \in 1..Len(all) :
               DateParse(all[i].fecha) = <<>> => sortFechaValue(all[i]) = 0
        /\ IsPermutation(rows.ingresos, sortMovements(rows.ingresos, byFecha))
        /\ IsPermutation(rows.gastos, sortMovements(rows.gastos, byFecha))
        /\ \A west \in BOOLEAN : ~detailGroupsOf(active, movs, west).threw

-----------------------------------------------------------------------------
(* The yearly pivot (yearlyDisplay): selectors, series toggles and totals  *)

MaxPivotMovs == 2

\* yearlyEvolution.years: the years of the movements, ascending
yearlyEvolutionYears ==
    {yearOfFecha(yearlyMovimientos[i].fecha)[1] :
        i \in {j \in 1..Len(yearlyMovimientos) :
                   yearOfFecha(yearlyMovimientos[j].fecha) # <<>>}}

\* the values of the <option>s of the year <select>
yearlyYearOptions == {NumStr(year) : year \in yearlyEvolutionYears}

\* the categories of the movements of the selected year
yearlyCategoryOptions ==
    {yearlyCategoryLabel(yearlyMovimientos[i]) :
        i \in {j \in 1..Len(yearlyMovimientos) :
                   LET year == yearOfFecha(yearlyMovimientos[j].fecha)
                   IN  /\ year # <<>>
                       /\ yearlySelectedYear = <<>>
                          \/ year = yearlySelectedYear}}

\* the details of the movements of the selected year and category
yearlyDetailOptions ==
    IF selectedYearlyCategory = T_todas THEN {}
    ELSE {yearlyDetailLabel(yearlyMovimientos[i]) :
             i \in {j \in 1..Len(yearlyMovimientos) :
                        LET year == yearOfFecha(yearlyMovimientos[j].fecha)
                        IN  /\ year # <<>>
                            /\ yearlySelectedYear = <<>>
                               \/ year = yearlySelectedYear
                            /\ yearlyCategoryLabel(yearlyMovimientos[j]) =
                                   selectedYearlyCategory}}

yearlyShowVars == <<showYearlyIngresos, showYearlyGastos, showYearlyFijos,
                    showYearlyVariables>>

yearlySelectVars == <<selectedYearlyYear, selectedYearlyCategory,
                      selectedYearlyDetail>>

\* the year <select> of the pivot
SelectYearlyYear ==
    /\ \E value \in ({T_todos} \cup yearlyYearOptions) \ {selectedYearlyYear} :
           /\ selectedYearlyYear' = value
           /\ selectedYearlyCategory' = T_todas
           /\ selectedYearlyDetail' = T_todos
    /\ UNCHANGED <<restVars,
                   dataVars, yearlyMovimientos, yearlyShowVars, uiVars,
                   editorCategorias, editorMovimientos>>

\* the category <select> of the pivot
SelectYearlyCategory ==
    /\ \E value \in ({T_todas} \cup yearlyCategoryOptions)
                        \ {selectedYearlyCategory} :
           /\ selectedYearlyCategory' = value
           /\ selectedYearlyDetail' = T_todos
    /\ UNCHANGED <<restVars, dataVars, yearlyMovimientos, yearlyShowVars,
                   selectedYearlyYear, uiVars, editorCategorias,
                   editorMovimientos>>

\* the detail <select> of the pivot, disabled while the category is "todas"
SelectYearlyDetail ==
    /\ selectedYearlyCategory # T_todas
    /\ \E value \in ({T_todos} \cup yearlyDetailOptions)
                        \ {selectedYearlyDetail} :
           selectedYearlyDetail' = value
    /\ UNCHANGED <<restVars, dataVars, yearlyMovimientos, yearlyShowVars,
                   selectedYearlyYear, selectedYearlyCategory, uiVars,
                   editorCategorias, editorMovimientos>>

SetShowYearlyIngresos ==
    /\ \E checked \in BOOLEAN \ {showYearlyIngresos} :
           showYearlyIngresos' = checked
    /\ UNCHANGED <<restVars, dataVars, yearlyMovimientos, showYearlyGastos,
                   showYearlyFijos, showYearlyVariables, yearlySelectVars,
                   uiVars, editorCategorias, editorMovimientos>>

SetShowYearlyGastos ==
    /\ \E checked \in BOOLEAN \ {showYearlyGastos} :
           showYearlyGastos' = checked
    /\ UNCHANGED <<restVars, dataVars, yearlyMovimientos, showYearlyIngresos,
                   showYearlyFijos, showYearlyVariables, yearlySelectVars,
                   uiVars, editorCategorias, editorMovimientos>>

SetShowYearlyFijos ==
    /\ \E checked \in BOOLEAN \ {showYearlyFijos} : showYearlyFijos' = checked
    /\ UNCHANGED <<restVars, dataVars, yearlyMovimientos, showYearlyIngresos,
                   showYearlyGastos, showYearlyVariables, yearlySelectVars,
                   uiVars, editorCategorias, editorMovimientos>>

SetShowYearlyVariables ==
    /\ \E checked \in BOOLEAN \ {showYearlyVariables} :
           showYearlyVariables' = checked
    /\ UNCHANGED <<restVars, dataVars, yearlyMovimientos, showYearlyIngresos,
                   showYearlyGastos, showYearlyFijos, yearlySelectVars,
                   uiVars, editorCategorias, editorMovimientos>>

\* record[year] = (record[year] ?? 0) + amount, on the accumulator `series`
\* of the map entry `key`
addTo(cells, key, series, year, amount) ==
    LET cell == <<key, series, year>>
    IN  IF cell \in DOMAIN cells
        THEN [cells EXCEPT ![cell] = @ + amount]
        ELSE cells @@ (cell :> amount)

\* one call of the forEach callback: yearsSet and map (the keys and their
\* labels in insertion order, the cells of the accumulators) after mov
yearlyVisit(before, mov) ==
    LET key == yearlyCategoryKey(mov)
        known == \E p \in 1..Len(before.keys) : before.keys[p] = key
    IN  IF ~yearlyYearPasses(mov) THEN before
        ELSE IF ~yearlyCounted(mov)
        THEN [before EXCEPT !.yearsSet = @ \cup {yearOfFecha(mov.fecha)[1]}]
        ELSE [yearsSet |-> before.yearsSet \cup {yearOfFecha(mov.fecha)[1]},
              keys |-> IF known THEN before.keys
                       ELSE Append(before.keys, key),
              labels |-> IF known THEN before.labels
                         ELSE Append(before.labels, yearlyCategoryLabel(mov)),
              cells |-> addTo(before.cells, key, yearlySeries(mov),
                              yearOfFecha(mov.fecha)[1], Magnitude(mov))]

RECURSIVE yearlyForEach(_, _)
\* yearsSet and map after the forEach has visited the first n movements
yearlyForEach(movs, n) ==
    IF n = 0
    THEN [yearsSet |-> {}, keys |-> <<>>, labels |-> <<>>, cells |-> <<>>]
    ELSE yearlyVisit(yearlyForEach(movs, n - 1), movs[n])

\* entry.<series>[year] ?? 0
yearlyValue(cells, key, series, year) ==
    IF <<key, series, year>> \in DOMAIN cells
    THEN cells[<<key, series, year>>] ELSE 0

\* Array.from(yearsSet).sort((a, b) => a - b)
SortedYears(yearsSet) ==
    LET nth(p) == CHOOSE y \in yearsSet :
                      Cardinality({z \in yearsSet : z < y}) = p - 1
    IN  [p \in 1..Cardinality(yearsSet) |-> nth(p)]

\* the series toggles of a render
yearlyShow ==
    [ingresos |-> showYearlyIngresos, gastos |-> showYearlyGastos,
     fijos |-> showYearlyFijos, variables |-> showYearlyVariables]

\* totalFijo, totalVariable and total of a map entry over the years
yearlyCategoryTotals(cells, key, label, years, show) ==
    LET over(series, on) ==
            SumSeq([p \in 1..Len(years) |->
                      IF on THEN yearlyValue(cells, key, series, years[p])
                      ELSE 0])
        totalFijo ==
            over("ingresoFijo", show.ingresos /\ show.fijos)
                + over("gastoFijo", show.gastos /\ show.fijos)
        totalVariable ==
            over("ingresoVariable", show.ingresos /\ show.variables)
                + over("gastoVariable", show.gastos /\ show.variables)
    IN  [key |-> key, category |-> label, totalFijo |-> totalFijo,
         totalVariable |-> totalVariable,
         total |-> totalFijo + totalVariable]

\* categories with a fault: the entries whose total is 0 are kept
yearlyCategories_keepZero(acc, years, show) ==
    LET entries == [p \in 1..Len(acc.keys) |->
                      yearlyCategoryTotals(acc.cells, acc.keys[p],
                                           acc.labels[p], years, show)]
    IN  SortDescBy(entries, [p \in 1..Len(entries) |-> entries[p].total])

\* Array.from(map.values()).map(...).filter(total > 0).sort(b.total - a.total)
yearlyCategories(acc, years, show) ==
    LET entries == [p \in 1..Len(acc.keys) |->
                      yearlyCategoryTotals(acc.cells, acc.keys[p],
                                           acc.labels[p], years, show)]
        kept == SelectSeq(entries, LAMBDA entry : entry.total > 0)
    IN  SortDescBy(kept, [p \in 1..Len(kept) |-> kept[p].total])

\* fijoValue with a fault: the series toggles are not read
yearlyFijoValue_allSeries(cells, key, year, show) ==
    yearlyValue(cells, key, "ingresoFijo", year)
        + yearlyValue(cells, key, "gastoFijo", year)

\* fijoValue of a category at a year
yearlyFijoValue(cells, key, year, show) ==
    (IF show.ingresos /\ show.fijos
     THEN yearlyValue(cells, key, "ingresoFijo", year) ELSE 0)
        + (IF show.gastos /\ show.fijos
           THEN yearlyValue(cells, key, "gastoFijo", year) ELSE 0)

\* variableValue of a category at a year
yearlyVariableValue(cells, key, year, show) ==
    (IF show.ingresos /\ show.variables
     THEN yearlyValue(cells, key, "ingresoVariable", year) ELSE 0)
        + (IF show.gastos /\ show.variables
           THEN yearlyValue(cells, key, "gastoVariable", year) ELSE 0)

\* the body of the yearlyDisplay memo
yearlyDisplayOf(movs, show) ==
    LET acc == yearlyForEach(movs, Len(movs))
        years == SortedYears(acc.yearsSet)
        hasKind == show.ingresos \/ show.gastos
        hasFijo == show.fijos \/ show.variables
        categories == yearlyCategories(acc, years, show)
        fijoAt(year) ==
            SumSeq([p \in 1..Len(categories) |->
                      yearlyFijoValue(acc.cells, categories[p].key, year,
                                      show)])
        variableAt(year) ==
            SumSeq([p \in 1..Len(categories) |->
                      yearlyVariableValue(acc.cells, categories[p].key, year,
                                          show)])
        totalAt(year) ==
            SumSeq([p \in 1..Len(categories) |->
                      yearlyFijoValue(acc.cells, categories[p].key, year,
                                      show)
                          + yearlyVariableValue(acc.cells, categories[p].key,
                                                year, show)])
        totalsByYear == [year \in acc.yearsSet |-> totalAt(year)]
        totalsByYearFijo == [year \in acc.yearsSet |-> fijoAt(year)]
        totalsByYearVariable == [year \in acc.yearsSet |-> variableAt(year)]
        values(record) == SumSeq([p \in 1..Len(years) |-> record[years[p]]])
        \* the values Math.max(maxValue, ...) is called with
        shown == {acc.cells[cell] :
                     cell \in {c \in DOMAIN acc.cells :
                                  /\ \E p \in 1..Len(categories) :
                                         categories[p].key = c[1]
                                  /\ c[2] \in {"ingresoFijo", "ingresoVariable"}
                                         => show.ingresos
                                  /\ c[2] \in {"gastoFijo", "gastoVariable"}
                                         => show.gastos
                                  /\ c[2] \in {"ingresoFijo", "gastoFijo"}
                                         => show.fijos
                                  /\ c[2] \in {"ingresoVariable",
                                                "gastoVariable"}
                                         => show.variables}}
    IN  IF years = <<>> \/ ~hasKind \/ ~hasFijo
        THEN [years |-> years, cells |-> acc.cells, categories |-> <<>>,
              maxValue |-> 1, totalsByYear |-> <<>>, totalsByYearFijo |-> <<>>,
              totalsByYearVariable |-> <<>>, grandTotal |-> 0,
              grandTotalFijo |-> 0, grandTotalVariable |-> 0]
        ELSE [years |-> years, cells |-> acc.cells,
              categories |-> categories,
              maxValue |-> SetMax({1} \cup shown),
              totalsByYear |-> totalsByYear,
              totalsByYearFijo |-> totalsByYearFijo,
              totalsByYearVariable |-> totalsByYearVariable,
              grandTotal |-> values(totalsByYear),
              grandTotalFijo |-> values(totalsByYearFijo),
              grandTotalVariable |-> values(totalsByYearVariable)]

yearlyDisplay == yearlyDisplayOf(yearlyMovimientos, yearlyShow)

F_2023 == <<"2", "0", "2", "3", "-", "0", "5", "-", "0", "5">>

\* a fecha whose first four characters are not a number
F_noYear == <<"s", "/", "f">>

PivotRows ==
    {RawMov(F_2023, T_Ingreso, Num(100), T_pan, JsTrue, C_2),
     RawMov(F_2024, T_Ingreso, Num(120), T_pan, JsTrue, C_2),
     RawMov(F_2024, T_gasto, Num(-30), Null, JsFalse, Null),
     RawMov(F_2024, Null, Num(-200), T_pan, [t |-> "string", v |-> <<"t">>],
            C_2),
     RawMov(F_noYear, T_Ingreso, Num(50), T_pan, JsTrue, C_2)}

InitPivot == store \in BoundedSeq(PivotRows, MaxPivotMovs) /\ InitState

NextPivot ==
    \/ LoadYearlyMovimientos
    \/ SelectYearlyYear
    \/ SelectYearlyCategory
    \/ SelectYearlyDetail
    \/ SetShowYearlyIngresos
    \/ SetShowYearlyGastos
    \/ SetShowYearlyFijos
    \/ SetShowYearlyVariables

SpecPivot == InitPivot /\ [][NextPivot]_vars

\* the movements with a non-zero magnitude and a valid year that pass the
\* year, category and detail selectors
PassesSelectors(mov) ==
    /\ Magnitude(mov) # 0
    /\ yearOfFecha(mov.fecha) # <<>>
    /\ selectedYearlyYear = T_todos
       \/ NumStr(yearOfFecha(mov.fecha)[1]) = selectedYearlyYear
    /\ selectedYearlyCategory = T_todas
       \/ Coalesce(mov.categoria_nombre, T_sinCategoria)
              = selectedYearlyCategory
    /\ selectedYearlyDetail = T_todos
       \/ yearlyDetailLabel(mov) = selectedYearlyDetail

AllShown == [ingresos |-> TRUE, gastos |-> TRUE, fijos |-> TRUE,
             variables |-> TRUE]

\* C18: every movement with a non-zero magnitude and a valid year that passes
\* the year, category and detail selectors adds its magnitude to exactly one
\* of the four accumulators of its category entry, at its own year, and the
\* movements that fail a selector add to none; with the four series toggles on
\* grandTotal is the sum of the magnitudes of the movements that passed.
C18_OneAccumulator ==
    LET movs == yearlyMovimientos
        display == yearlyDisplayOf(movs, yearlyShow)
        passed == {i \in 1..Len(movs) : PassesSelectors(movs[i])}
        keyOf(i) == Coalesce(movs[i].categoria_id,
                             Coalesce(movs[i].categoria_nombre,
                                      T_sinCategoria))
        yearOf(i) == yearOfFecha(movs[i].fecha)[1]
        sumOf(S) == SumSeq([i \in 1..Len(movs) |->
                              IF i \in S THEN Magnitude(movs[i]) ELSE 0])
    IN  /\ \E series \in [passed -> YearlySeriesNames] :
               /\ \A cell \in DOMAIN display.cells :
                      display.cells[cell] =
                          sumOf({i \in passed : /\ keyOf(i) = cell[1]
                                                /\ series[i] = cell[2]
                                                /\ yearOf(i) = cell[3]})
               /\ \A i \in passed :
                      <<keyOf(i), series[i], yearOf(i)>>
                          \in DOMAIN display.cells
        /\ yearlyShow = AllShown => display.grandTotal = sumOf(passed)

\* one movement was accumulated and another one, of another category, fails
\* the category selector, with the four series shown
C18_Witness ==
    LET movs == yearlyMovimientos
        display == yearlyDisplayOf(movs, yearlyShow)
    IN  /\ yearlyShow = AllShown
        /\ selectedYearlyCategory # T_todas
        /\ \E i, j \in 1..Len(movs) :
               /\ PassesSelectors(movs[i])
               /\ Magnitude(movs[j]) # 0
               /\ yearOfFecha(movs[j].fecha) # <<>>
               /\ ~PassesSelectors(movs[j])
               /\ display.grandTotal = Magnitude(movs[i])

RECURSIVE SumOver(_, _)
\* the sum of the values of a function over a subset of its domain
SumOver(f, S) ==
    IF S = {} THEN 0
    ELSE LET x == CHOOSE x \in S : TRUE
         IN  f[x] + SumOver(f, S \ {x})

\* whether a series is among those the toggles enable
SeriesEnabled(series, show) ==
    /\ series \in {"ingresoFijo", "ingresoVariable"} => show.ingresos
    /\ series \in {"gastoFijo", "gastoVariable"} => show.gastos
    /\ series \in {"ingresoFijo", "gastoFijo"} => show.fijos
    /\ series \in {"ingresoVariable", "gastoVariable"} => show.variables

\* the sum of the enabled series of a key over the years of a set
EnabledTotal(cells, key, years, show) ==
    SumOver(cells, {cell \in DOMAIN cells :
                        /\ cell[1] = key
                        /\ cell[3] \in years
                        /\ SeriesEnabled(cell[2], show)})

\* C19: for every toggle combination and every movement history no entry of
\* yearlyDisplay.categories has total 0 over the enabled series: a category
\* whose enabled series are all zero across all years is absent, every
\* category with a positive enabled total is present, and the categories are
\* in descending order of total.
C19_NoZeroCategory ==
    LET display == yearlyDisplayOf(yearlyMovimientos, yearlyShow)
        categories == display.categories
        keys == {cell[1] : cell \in DOMAIN display.cells}
        years == {cell[3] : cell \in DOMAIN display.cells}
        enabled(key) == EnabledTotal(display.cells, key, years, yearlyShow)
        at(key) == {p \in 1..Len(categories) : categories[p].key = key}
    IN  /\ \A p \in 1..Len(categories) :
               /\ categories[p].key \in keys
               /\ categories[p].total = enabled(categories[p].key)
               /\ categories[p].total # 0
        /\ \A key \in keys :
               Cardinality(at(key)) = (IF enabled(key) > 0 THEN 1 ELSE 0)
        /\ \A p \in 1..(Len(categories) - 1) :
               categories[p].total >= categories[p + 1].total

\* a category whose only movement is in a series that is switched off is
\* absent while another category is listed
C19_Witness ==
    LET display == yearlyDisplayOf(yearlyMovimientos, yearlyShow)
        keys == {cell[1] : cell \in DOMAIN display.cells}
    IN  /\ Cardinality(keys) = 2
        /\ Len(display.categories) = 1
        /\ showYearlyIngresos /\ showYearlyGastos

\* C20: in every non-empty yearlyDisplay result the totals are consistent:
\* for each year totalsByYear = totalsByYearFijo + totalsByYearVariable and is
\* the sum over the listed categories of their enabled series at that year;
\* each category's total is its totalFijo + totalVariable over the years; and
\* grandTotal = the sum of totalsByYear = the sum of the categories' totals =
\* grandTotalFijo + grandTotalVariable.
C20_TotalsConsistent ==
    LET display == yearlyDisplayOf(yearlyMovimientos, yearlyShow)
        categories == display.categories
        years == {display.years[p] : p \in 1..Len(display.years)}
        listed == {categories[p].key : p \in 1..Len(categories)}
        fijo == [ingresos |-> showYearlyIngresos, gastos |-> showYearlyGastos,
                 fijos |-> showYearlyFijos, variables |-> FALSE]
        variable == [ingresos |-> showYearlyIngresos,
                     gastos |-> showYearlyGastos, fijos |-> FALSE,
                     variables |-> showYearlyVariables]
        enabledAt(year) ==
            SumOver(display.cells,
                    {cell \in DOMAIN display.cells :
                         /\ cell[1] \in listed
                         /\ cell[3] = year
                         /\ SeriesEnabled(cell[2], yearlyShow)})
    IN  DOMAIN display.totalsByYear # {} =>
            /\ DOMAIN display.totalsByYear = years
            /\ DOMAIN display.totalsByYearFijo = years
            /\ DOMAIN display.totalsByYearVariable = years
            /\ \A year \in years :
                   /\ display.totalsByYear[year] =
                          display.totalsByYearFijo[year]
                              + display.totalsByYearVariable[year]
                   /\ display.totalsByYear[year] = enabledAt(year)
            /\ \A p \in 1..Len(categories) :
                   /\ categories[p].total =
                          categories[p].totalFijo + categories[p].totalVariable
                   /\ categories[p].totalFijo =
                          EnabledTotal(display.cells, categories[p].key,
                                       years, fijo)
                   /\ categories[p].totalVariable =
                          EnabledTotal(display.cells, categories[p].key,
                                       years, variable)
            /\ display.grandTotal = SumOver(display.totalsByYear, years)
            /\ display.grandTotal =
                   SumSeq([p \in 1..Len(categories) |-> categories[p].total])
            /\ display.grandTotal =
                   display.grandTotalFijo + display.grandTotalVariable

\* the fixed income of one category, 100 in 2023 and 120 in 2024, with the
\* expenses switched off: category total 220 and grandTotal 220
C20_Witness ==
    LET display == yearlyDisplayOf(yearlyMovimientos, yearlyShow)
    IN  /\ ~showYearlyGastos
        /\ Len(display.categories) = 1
        /\ display.categories[1].total = 220
        /\ display.totalsByYear = (2023 :> 100) @@ (2024 :> 120)
        /\ display.grandTotal = 220

-----------------------------------------------------------------------------
(* The yearly pivot: what the card shows                                   *)

\* the block the card of the pivot renders: the "No hay datos suficientes"
\* notice, the "Activa ingresos/gastos y fijos/variables" notice or the table
yearlyPresented ==
    IF yearlyEvolutionYears = {} THEN "noData"
    ELSE IF \/ ~showYearlyIngresos /\ ~showYearlyGastos
            \/ ~showYearlyFijos /\ ~showYearlyVariables
    THEN "activate"
    ELSE IF yearlyDisplay.categories = <<>> THEN "noData"
    ELSE "table"

\* C21: with both kind toggles off, or both fixed/variable toggles off, or no
\* year present, yearlyDisplay is the explicit empty result (no categories,
\* grand totals 0, maxValue 1, empty per-year totals); and whenever the
\* history has data and the pivot is empty because of the user's toggles, the
\* no-data notice is not the one shown.
C21_EmptyStates ==
    LET display == yearlyDisplayOf(yearlyMovimientos, yearlyShow)
        unfiltered == yearlyDisplayOf(yearlyMovimientos, AllShown)
    IN  /\ (\/ ~showYearlyIngresos /\ ~showYearlyGastos
            \/ ~showYearlyFijos /\ ~showYearlyVariables
            \/ display.years = <<>>)
               => /\ display.categories = <<>>
                  /\ display.maxValue = 1
                  /\ display.totalsByYear = <<>>
                  /\ display.totalsByYearFijo = <<>>
                  /\ display.totalsByYearVariable = <<>>
                  /\ display.grandTotal = 0
                  /\ display.grandTotalFijo = 0
                  /\ display.grandTotalVariable = 0
        /\ display.categories = <<>> /\ unfiltered.categories # <<>>
               => yearlyPresented # "noData"

-----------------------------------------------------------------------------
(* The fixed flag: the encodings of fijo the store may hand over          *)

MaxFijoMovs == 1

JsUndefined == [t |-> "undefined", v |-> <<>>]

JsNumber(digits) == [t |-> "number", v |-> digits]

JsString(s) == [t |-> "string", v |-> s]

\* the spellings of "true" and "t" in which only the case varies
TrueSpellings ==
    {<<"t", "r", "u", "e">>, <<"T", "R", "U", "E">>, <<"T", "r", "u", "e">>,
     <<"t">>, <<"T">>}

FijoValues ==
    {JsTrue, JsFalse, JsNull, JsUndefined, JsNumber(<<"1">>),
     JsNumber(<<"0">>), JsNumber(<<"2">>), JsString(<<"1">>),
     JsString(<<"0">>), JsString(<<>>), JsString(<<"f", "a", "l", "s", "e">>),
     JsString(<<"s", "i">>), JsString(<<"t", "r", "u", "e", " ">>),
     JsString(<<"t", "r">>)}
        \cup {JsString(s) : s \in TrueSpellings}

FijoRows ==
    {RawMov(F_2024, T_Ingreso, Num(10), T_pan, fijo, C_2) :
        fijo \in FijoValues}

InitFijo == store \in BoundedSeq(FijoRows, MaxFijoMovs) /\ InitState

NextFijo ==
    \/ LoadMovimientos
    \/ LoadYearlyMovimientos
    \/ SetShowYearlyVariables
    \/ SetShowChartFijos

SpecFijo == InitFijo /\ [][NextFijo]_vars

\* the fijo values the pivot is said to read as fixed
TolerantFixed(fijo) ==
    \/ fijo = JsTrue
    \/ fijo = JsNumber(<<"1">>)
    \/ fijo = JsString(<<"1">>)
    \/ fijo.t = "string" /\ fijo.v \in TrueSpellings

\* C22: in the yearly pivot a movement counts as fixed iff its fijo is the
\* boolean true, the number 1, the string "1", or a string equal to "true" or
\* "t" ignoring case, and as variable for every other value; the year-scoped
\* filter, chart and grouping count it as fixed iff fijo === true.
C22_FixedFlag ==
    LET rows == movimientoRows
        all == rows.ingresos \o rows.gastos
        onlyFijos == fijoFilter(all, TRUE, FALSE)
        chart == chartDataOf(all, TRUE, TRUE)
        byId == [byCategory |-> FALSE, byDetail |-> FALSE]
    IN  /\ \A i \in 1..Len(yearlyMovimientos) :
               LET mov == yearlyMovimientos[i]
                   cells == yearlyForEach(<<mov>>, 1).cells
               IN  yearlyCounted(mov) =>
                       /\ Cardinality(DOMAIN cells) = 1
                       /\ \A cell \in DOMAIN cells :
                              cell[2] \in {"ingresoFijo", "gastoFijo"}
                                  <=> TolerantFixed(mov.fijo)
        /\ \A i \in 1..Len(all) :
               LET strict == all[i].fijo = JsTrue
                   group == buildGroupedRows(<<all[i]>>, byId)
               IN  /\ (\E j \in 1..Len(onlyFijos) : onlyFijos[j].id = all[i].id)
                          <=> strict
                   /\ group[1].fijoLabel = (IF strict THEN T_Si ELSE T_No)
        /\ SumSeq([p \in 1..Len(chart.ingresos) |-> chart.ingresos[p].fijo])
               = SumSeq([i \in 1..Len(rows.ingresos) |->
                           IF rows.ingresos[i].fijo = JsTrue
                           THEN Magnitude(rows.ingresos[i]) ELSE 0])

\* a movement whose fijo is the string "T": fixed for the pivot, variable for
\* the filter, the chart and the grouping
C22_Witness ==
    /\ \E i \in 1..Len(yearlyMovimientos) :
           /\ yearlyMovimientos[i].fijo = JsString(<<"T">>)
           /\ yearlyCounted(yearlyMovimientos[i])
           /\ yearlyDisplayOf(yearlyMovimientos, AllShown).grandTotalFijo = 10
    /\ \E i \in 1..Len(movimientoRows.ingresos) :
           movimientoRows.ingresos[i].fijo = JsString(<<"T">>)
    /\ chartData.ingresos # <<>>
    /\ chartData.ingresos[1].fijo = 0

-----------------------------------------------------------------------------
(* Buckets of the grouping: names that hold the separator of the key, the  *)
(* placeholder as a detail, and dates on both sides of the epoch           *)

MaxBucketMovs == 2

F_1969 == <<"1", "9", "6", "9", "-", "1", "2", "-", "3", "1">>

F_1969_06 == <<"1", "9", "6", "9", "-", "0", "6", "-", "1", "5">>

T_c == <<"c">>

T_b_c == <<"b", "|", "|", "c">>

BucketRows ==
    {RawMov(F_2024, T_Ingreso, Num(10), T_c, JsTrue, C_5),
     RawMov(F_2024_03, T_Ingreso, Num(20), T_b_c, JsFalse, C_6),
     RawMov(F_2024, T_Ingreso, Num(5), Null, JsFalse, C_6),
     RawMov(F_2024, T_Ingreso, Num(7), T_dash, JsFalse, C_6),
     RawMov(F_unparseable, T_Ingreso, Num(4), T_c, JsFalse, C_2),
     RawMov(F_1969, T_Ingreso, Num(3), T_c, JsFalse, C_6),
     RawMov(F_1969_06, T_Ingreso, Num(2), T_c, JsFalse, C_2)}

\* the years of loadYears: Number(row.fecha.slice(0, 4)) over the book
availableYears == {FechaYear(store[i].fecha) : i \in 1..Len(store)}

\* the year <select> over availableYears, then useEffect(loadMovimientos)
SelectAvailableYear ==
    /\ \E y \in availableYears \ {selectedYear} :
           /\ selectedYear' = y
           /\ \E outcome \in Outcomes : loadMovimientos(y, outcome)
    /\ UNCHANGED <<restVars, store, yearlyVars, uiVars, editorCategorias,
                   editorMovimientos>>

InitBucket == store \in BoundedSeq(BucketRows, MaxBucketMovs) /\ InitState

NextBucket ==
    \/ LoadMovimientos
    \/ SelectAvailableYear
    \/ ToggleGroupIngresosByCategory
    \/ ToggleGroupIngresosByDetail

SpecBucket == InitBucket /\ [][NextBucket]_vars

\* the values of the enabled dimensions of a movement, an absent detail
\* shown as the placeholder
shownCombination(mov, options) ==
    <<IF options.byCategory THEN mov.categoryName ELSE T_todas,
      IF options.byDetail THEN detailOrDash(mov) ELSE T_todas>>

\* C23: in every grouped row the category label is the category of the
\* bucket's movements when byCategory is on, and otherwise their single
\* category or "Varias" when they differ; the detail label follows the same
\* rule with byDetail, an absent detail read as the placeholder; and there
\* are as many rows as distinct combinations of the enabled dimensions in
\* the input.
C23_GroupLabels ==
    LET rows == displayedIngresos
        options == ingresosOptions
        grouped == buildGroupedRows(rows, options)
        label(on, values, shown) ==
            IF on \/ Cardinality(values) = 1
            THEN values = {shown} ELSE shown = T_Varias
    IN  /\ Len(grouped) =
               Cardinality({shownCombination(rows[i], options) :
                               i \in 1..Len(rows)})
        /\ \A g \in 1..Len(grouped) :
               LET bucket == {i \in 1..Len(rows) :
                                 groupKey(rows[i], options) = grouped[g].key}
               IN  /\ label(options.byCategory,
                            {rows[i].categoryName : i \in bucket},
                            grouped[g].categoryName)
                   /\ label(options.byDetail,
                            {detailOrDash(rows[i]) : i \in bucket},
                            grouped[g].detailText)

\* the labels alone, over the lists in which no two combinations share a key
C23_LabelsOfDistinctKeys ==
    LET rows == displayedIngresos
        options == ingresosOptions
        grouped == buildGroupedRows(rows, options)
        label(on, values, shown) ==
            IF on \/ Cardinality(values) = 1
            THEN values = {shown} ELSE shown = T_Varias
        distinct == \A i, j \in 1..Len(rows) :
                        groupKey(rows[i], options) = groupKey(rows[j], options)
                            => shownCombination(rows[i], options)
                                   = shownCombination(rows[j], options)
    IN  distinct =>
            /\ Len(grouped) =
                   Cardinality({shownCombination(rows[i], options) :
                                   i \in 1..Len(rows)})
            /\ \A g \in 1..Len(grouped) :
                   LET bucket == {i \in 1..Len(rows) :
                                     groupKey(rows[i], options) = grouped[g].key}
                   IN  /\ label(options.byCategory,
                                {rows[i].categoryName : i \in bucket},
                                grouped[g].categoryName)
                       /\ label(options.byDetail,
                                {detailOrDash(rows[i]) : i \in bucket},
                                grouped[g].detailText)

\* C24: the latestDate of every grouped row is the greatest parsed timestamp
\* of the movements of its bucket, an unparseable fecha counting as 0, also
\* when the timestamps are negative.
C24_LatestDate ==
    LET rows == displayedIngresos
        options == ingresosOptions
        grouped == buildGroupedRows(rows, options)
    IN  \A g \in 1..Len(grouped) :
            LET bucket == {i \in 1..Len(rows) :
                              groupKey(rows[i], options) = grouped[g].key}
                stamps == {IF DateParse(rows[i].fecha) = <<>> THEN 0
                           ELSE DateParse(rows[i].fecha)[1] : i \in bucket}
            IN  /\ grouped[g].latestDate \in stamps
                /\ \A t \in stamps : t <= grouped[g].latestDate

\* the values of the enabled dimensions of a movement, an absent detail
\* being no detail text
enabledDimensions(mov, byCategory, byDetail) ==
    <<IF byCategory THEN mov.categoryName ELSE T_todas,
      IF byDetail THEN mov.detailText ELSE T_todas>>

\* C28: two movements are in the same bucket iff they have the same category
\* name when byCategory is on and the same detail text when byDetail is on,
\* an absent detail differing from every detail text; so it is for the
\* grouping of app/dashboard/page.tsx, which always groups by both.
C28_BucketIdentity ==
    LET rows == displayedIngresos
        options == ingresosOptions
    IN  \A i, j \in 1..Len(rows) :
            /\ groupKey(rows[i], options) = groupKey(rows[j], options)
                   <=> enabledDimensions(rows[i], options.byCategory,
                                         options.byDetail)
                           = enabledDimensions(rows[j], options.byCategory,
                                               options.byDetail)
            /\ groupKey_page(rows[i]) = groupKey_page(rows[j])
                   <=> enabledDimensions(rows[i], TRUE, TRUE)
                           = enabledDimensions(rows[j], TRUE, TRUE)

-----------------------------------------------------------------------------
(* Category records of every shape: the kind of a category                 *)

MaxKindEntries == 2

K_tipo_mov == <<"t", "i", "p", "o", "_", "m", "o", "v">>

K_Kind == <<"K", "i", "n", "d">>

K_sinGastos == <<"s", "i", "n", "G", "a", "s", "t", "o", "s">>

K_conIngreso == <<"c", "o", "n", "I", "n", "g", "r", "e", "s", "o">>

K_grupo == <<"g", "r", "u", "p", "o">>

T_otro == <<"o", "t", "r", "o">>

\* the fields a categorias row may carry besides its id
KindEntries ==
    {StrEntry(K_tipo, T_ingreso), StrEntry(K_tipo, T_otro), NullEntry(K_tipo),
     StrEntry(K_tipo_mov, T_gasto), StrEntry(K_Kind, <<"I">>),
     StrEntry(K_grupo, T_gasto), StrEntry(K_es_gasto, <<"s", "i">>),
     BoolEntry(K_es_gasto, TRUE), BoolEntry(K_es_gasto, FALSE),
     BoolEntry(K_esIngreso, TRUE), BoolEntry(K_es_ingreso, FALSE),
     BoolEntry(T_gasto, TRUE), BoolEntry(K_sinGastos, FALSE),
     BoolEntry(K_conIngreso, TRUE)}

\* the rows of id c1: the id, the name and up to MaxKindEntries fields of
\* distinct keys
KindRecords ==
    {<<StrEntry(K_id, C_1), StrEntry(K_nombre, N_Luz)>> \o fields :
        fields \in {f \in BoundedSeq(KindEntries, MaxKindEntries) :
                       \A i, j \in 1..Len(f) : i # j => f[i].key # f[j].key}}

\* a movement whose tipo does not classify, of category c1
KindStore == <<RawMov(F_2024, Null, Num(10), T_pan, JsTrue, C_1)>>

InitCategory ==
    /\ store = KindStore
    /\ InitClient
    /\ \E record \in KindRecords : storeCategorias = <<record>>
    /\ NoPending
    /\ NoEdit

NextCategory ==
    \/ LoadMovimientos
    \/ LoadYearlyMovimientos

SpecCategory == InitCategory /\ [][NextCategory]_vars

\* the first element of a sequence of fields, as a sequence of at most one
First(fields) == IF fields = <<>> THEN <<>> ELSE <<fields[1]>>

\* what each step of the chain yields for a record: <<>> or <<kind>>
KindSteps(record) ==
    LET kindOf(text) ==
            IF normalizeKindLabel(text) = Null THEN <<>>
            ELSE <<normalizeKindLabel(text)>>
        keyHas(e, part) == includes(toLowerCase(e.key), part)
        tipo == First(SelectSeq(record,
                        LAMBDA e : e.key = K_tipo /\ e.t = "string"))
        texts == SelectSeq(record,
                     LAMBDA e : /\ e.t = "string"
                                /\ \/ keyHas(e, K_tipo)
                                   \/ keyHas(e, K_kind)
                                   \/ keyHas(e, K_mov)
                                /\ kindOf(e.s) # <<>>)
        boolOf(key) == SelectSeq(record,
                           LAMBDA e : e.key = key /\ e.t = "boolean")
        esGasto == First(boolOf(K_es_gasto) \o boolOf(K_esGasto)
                             \o boolOf(T_gasto))
        esIngreso == First(boolOf(K_es_ingreso) \o boolOf(K_esIngreso)
                               \o boolOf(T_ingreso))
        flag == First(SelectSeq(record,
                        LAMBDA e : /\ e.t = "boolean"
                                   /\ \/ keyHas(e, T_gasto)
                                      \/ keyHas(e, T_ingreso)))
    IN  << IF tipo = <<>> THEN <<>> ELSE kindOf(tipo[1].s),
           IF texts = <<>> THEN <<>> ELSE kindOf(texts[1].s),
           IF esGasto = <<>> THEN <<>>
           ELSE IF esGasto[1].b THEN <<T_gasto>> ELSE <<T_ingreso>>,
           IF esIngreso = <<>> THEN <<>>
           ELSE IF esIngreso[1].b THEN <<T_ingreso>> ELSE <<T_gasto>>,
           IF flag = <<>> THEN <<>>
           ELSE IF keyHas(flag[1], T_gasto) = flag[1].b
           THEN <<T_gasto>> ELSE <<T_ingreso>> >>

\* the kind of the chain: that of the first step that yields one, else null
ChainKind(record) ==
    LET steps == KindSteps(record)
        yielding == {k \in 1..Len(steps) : steps[k] # <<>>}
    IN  IF yielding = {} THEN Null
        ELSE steps[CHOOSE k \in yielding : \A l \in yielding : k <= l][1]

\* C25: the kind of a category is that of the first step of the chain that
\* yields one: the tipo field as text, the string fields whose key contains
\* tipo, kind or mov, the boolean es_gasto/esGasto/gasto, the boolean
\* es_ingreso/esIngreso/ingreso, any boolean field whose key contains gasto
\* or ingreso, and null otherwise; tipo "ingreso" with es_gasto = true gives
\* ingreso, and es_gasto = false with es_ingreso = false gives ingreso when
\* no text field of the first two steps names a kind.
C25_KindChain ==
    LET record == storeCategorias[1]
        has(e) == \E i \in 1..Len(record) : record[i] = e
        namesKind(e) ==
            /\ e.t = "string"
            /\ \E part \in {K_tipo, K_kind, K_mov} :
                   includes(toLowerCase(e.key), part)
            /\ normalizeKindLabel(e.s) # Null
        loaded == movimientos \o yearlyMovimientos
    IN  \A i \in 1..Len(loaded) :
            \* the categorias query answered: the name of the row is joined
            loaded[i].categoria_nombre = N_Luz =>
                /\ loaded[i].categoria_kind = ChainKind(record)
                /\ has(StrEntry(K_tipo, T_ingreso))
                       /\ has(BoolEntry(K_es_gasto, TRUE))
                       => loaded[i].categoria_kind = T_ingreso
                /\ has(BoolEntry(K_es_gasto, FALSE))
                       /\ has(BoolEntry(K_es_ingreso, FALSE))
                       /\ (\A k \in 1..Len(record) : ~namesKind(record[k]))
                       => loaded[i].categoria_kind = T_ingreso

\* a loaded movement of a category with tipo "ingreso" and es_gasto = true,
\* and the yearly history loaded for it as well
C25_Witness ==
    /\ Len(storeCategorias[1]) = 4
    /\ storeCategorias[1][3] = StrEntry(K_tipo, T_ingreso)
    /\ storeCategorias[1][4] = BoolEntry(K_es_gasto, TRUE)
    /\ Len(movimientos) = 1
    /\ movimientos[1].categoria_kind = T_ingreso
    /\ Len(yearlyMovimientos) = 1
    /\ yearlyMovimientos[1].categoria_kind = T_ingreso

\* a loaded movement of a category with es_gasto = false and
\* es_ingreso = false
C25_WitnessBothFalse ==
    /\ Len(storeCategorias[1]) = 4
    /\ storeCategorias[1][3] = BoolEntry(K_es_gasto, FALSE)
    /\ storeCategorias[1][4] = BoolEntry(K_es_ingreso, FALSE)
    /\ Len(movimientos) = 1
    /\ movimientos[1].categoria_kind = T_ingreso

-----------------------------------------------------------------------------
(* The two lists of the year: movements of every amount                    *)

MaxRowsMovs == 2

RowsImportes == {NoNum, Num(0), Num(10), Num(-20), Num(30)}

RowsRows ==
    {RawMov(F_2024, tipo, importe, Null, JsFalse, Null) :
        tipo \in {T_Ingreso, T_gasto, Null}, importe \in RowsImportes}

InitRows == store \in BoundedSeq(RowsRows, MaxRowsMovs) /\ InitState

NextRows == LoadMovimientos \/ SelectYear

SpecRows == InitRows /\ [][NextRows]_vars

\* C26: every loaded movement, whatever its amount, is in exactly one place
\* of the two lists: among the incomes iff its kind is ingreso, among the
\* expenses otherwise; each list is in descending order of absolute amount;
\* and the totals are the sums over the movements of non-zero amount, the
\* others being listed without adding to them.
C26_Partition ==
    LET rows == movimientoRows
        all == rows.ingresos \o rows.gastos
        absOf(mov) == IF mov.importe = NoNum THEN 0
                      ELSE IF mov.importe[1] < 0 THEN 0 - mov.importe[1]
                      ELSE mov.importe[1]
        descending(list) ==
            \A j \in 1..(Len(list) - 1) : absOf(list[j]) >= absOf(list[j + 1])
        sumNonZero(list) ==
            SumSeq([j \in 1..Len(list) |->
                      IF absOf(list[j]) # 0 THEN absOf(list[j]) ELSE 0])
    IN  /\ Len(all) = Len(movimientos)
        /\ \A i \in 1..Len(movimientos) :
               LET places == {j \in 1..Len(all) : all[j].id = movimientos[i].id}
               IN  /\ Cardinality(places) = 1
                   /\ \A j \in places :
                          /\ j <= Len(rows.ingresos)
                                 <=> resolveKind(movimientos[i]) = T_ingreso
                          /\ all[j].importe = movimientos[i].importe
                          /\ all[j].tipo = movimientos[i].tipo
        /\ descending(rows.ingresos)
        /\ descending(rows.gastos)
        /\ totals.ingresos = sumNonZero(rows.ingresos)
        /\ totals.gastos = sumNonZero(rows.gastos)

\* an expense of amount 0 and an income without amount, both listed, next
\* to totals of 0
C26_Witness ==
    /\ Len(movimientos) = 2
    /\ \E j \in 1..Len(movimientoRows.gastos) :
           movimientoRows.gastos[j].importe = Num(0)
    /\ \E j \in 1..Len(movimientoRows.ingresos) :
           movimientoRows.ingresos[j].importe = NoNum
    /\ totals.ingresos = 0
    /\ totals.gastos = 0

\* two incomes loaded in ascending order of amount and listed in descending
\* order
C26_WitnessOrder ==
    /\ Len(movimientos) = 2
    /\ movimientos[1].importe = Num(10)
    /\ movimientos[2].importe = Num(30)
    /\ Len(movimientoRows.ingresos) = 2
    /\ movimientoRows.ingresos[1].importe = Num(30)

-----------------------------------------------------------------------------
(* Books: selecting another book reloads the years, the movements of the   *)
(* year and the history                                                    *)

MaxLibroMovs == 1

LibroRows ==
    {RawMov(F_2024, T_Ingreso, Num(10), T_pan, JsTrue, C_2),
     RawMov(F_2023, T_gasto, Num(20), Null, JsTrue, C_1),
     RawMov(F_2024, T_Ingreso, Num(5), <<"c">>, JsTrue, C_4)}

\* the movimientos rows of the books of the user
Libros == BoundedSeq(LibroRows, MaxLibroMovs)

\* setSelectedYear of loadYears: years.includes(CURRENT_YEAR) ? CURRENT_YEAR
\* : years[0] ?? CURRENT_YEAR, years in descending order
yearOfLoadYears(rows) ==
    LET years == {FechaYear(rows[i].fecha) : i \in 1..Len(rows)}
    IN  IF CURRENT_YEAR \in years \/ years = {} THEN CURRENT_YEAR
        ELSE SetMax(years)

\* the radio of a book: setSelectedLibroId, then the effects that depend on
\* it, each run to completion: loadYears, loadMovimientos and
\* loadYearlyMovimientos
SelectLibro ==
    /\ \E rows \in Libros \ {store} :
           LET year == yearOfLoadYears(rows)
               data == fetchMovimientos(rows, year)
               allRows == fetchYearlyMovimientos(rows)
           IN  /\ store' = rows
               /\ selectedYear' = year
               /\ \/ /\ movimientosError' = T_error
                     /\ movimientos' = <<>>
                  \/ /\ movimientosError' = Null
                     /\ movimientos' =
                            enrich(data, fetchCategorias(categoriaIdsOf(data)))
               /\ \/ yearlyMovimientos' = <<>>
                  \/ yearlyMovimientos' =
                         enrich(allRows,
                                fetchCategorias(categoriaIdsOf(allRows)))
    /\ UNCHANGED <<restVars, yearlyShowVars, yearlySelectVars, uiVars,
                   editorCategorias, editorMovimientos>>

InitLibro == store \in Libros /\ InitState

NextLibro ==
    \/ SelectLibro
    \/ LoadMovimientos
    \/ LoadYearlyMovimientos
    \/ SelectYearlyYear
    \/ SelectYearlyCategory
    \/ SelectYearlyDetail

SpecLibro == InitLibro /\ [][NextLibro]_vars

\* C27: whatever selectors were changed and whatever history was reloaded,
\* also for another book, the category selected in the pivot is "todas" or
\* one of yearlyCategoryOptions and the detail selected is "todos" or one of
\* yearlyDetailOptions; so yearlyDisplay never filters by a selection that
\* the history in memory does not offer.
C27_YearlySelections ==
    /\ selectedYearlyCategory \in {T_todas} \cup yearlyCategoryOptions
    /\ selectedYearlyDetail \in {T_todos} \cup yearlyDetailOptions
    /\ \A i \in 1..Len(yearlyMovimientos) :
           yearlyYearPasses(yearlyMovimientos[i])
               /\ selectedYearlyCategory \notin yearlyCategoryOptions
               => yearlyCounted(yearlyMovimientos[i])

-----------------------------------------------------------------------------
(* Loads in flight: a change of book or year starts a loader whose         *)
(* response arrives later, in any order; no loader is cancelled and no     *)
(* response is checked against the current selection                       *)

MaxPending == 2

LibroA ==
    <<RawMov(F_2024, T_Ingreso, Num(10), T_pan, JsTrue, C_2),
      RawMov(F_2023, T_gasto, Num(20), Null, JsTrue, C_1)>>

LibroB == <<RawMov(F_2023, T_Ingreso, Num(5), <<"c">>, JsTrue, C_4)>>

\* what a successful loadMovimientos of a book and a year sets
loadedMovimientos(rows, year) ==
    LET data == fetchMovimientos(rows, year)
    IN  enrich(data, fetchCategorias(categoriaIdsOf(data)))

\* what a successful loadYearlyMovimientos of a book sets
loadedYearly(rows) ==
    LET allRows == fetchYearlyMovimientos(rows)
    IN  enrich(allRows, fetchCategorias(categoriaIdsOf(allRows)))

\* the year <select>: setSelectedYear; the effect calls loadMovimientos,
\* which awaits the store
StartSelectYear ==
    /\ \E y \in Years \ {selectedYear} :
           /\ selectedYear' = y
           /\ pendingMovimientos' =
                  pendingMovimientos \cup {[rows |-> store, year |-> y]}
    /\ Cardinality(pendingMovimientos') <= MaxPending
    /\ UNCHANGED <<store, movimientos, movimientosError, yearlyVars, uiVars,
                   editorCategorias, editorMovimientos, storeCategorias,
                   editVars,
                   pendingYears, pendingYearly>>

\* the radio of a book: setSelectedLibroId; the effects call loadYears,
\* loadMovimientos and loadYearlyMovimientos, which await the store
StartSelectLibro ==
    /\ \E rows \in {LibroA, LibroB} \ {store} :
           /\ store' = rows
           /\ pendingYears' = pendingYears \cup {rows}
           /\ pendingMovimientos' =
                  pendingMovimientos
                      \cup {[rows |-> rows, year |-> selectedYear]}
           /\ pendingYearly' = pendingYearly \cup {rows}
    /\ Cardinality(pendingYears') <= MaxPending
    /\ Cardinality(pendingMovimientos') <= MaxPending
    /\ Cardinality(pendingYearly') <= MaxPending
    /\ UNCHANGED <<selectedYear, movimientos, movimientosError, yearlyVars,
                   uiVars, editorCategorias, editorMovimientos,
                   storeCategorias, editVars>>

\* the response of a loadYears call: setAvailableYears and setSelectedYear;
\* a changed year makes the effect call loadMovimientos for the current book
CompleteYears ==
    /\ \E rows \in pendingYears :
           /\ pendingYears' = pendingYears \ {rows}
           /\ selectedYear' = yearOfLoadYears(rows)
           /\ pendingMovimientos' =
                  IF selectedYear' = selectedYear THEN pendingMovimientos
                  ELSE pendingMovimientos
                           \cup {[rows |-> store, year |-> selectedYear']}
    /\ Cardinality(pendingMovimientos') <= MaxPending
    /\ UNCHANGED <<store, movimientos, movimientosError, yearlyVars, uiVars,
                   editorCategorias, editorMovimientos, storeCategorias,
                   editVars,
                   pendingYearly>>

\* the response of a loadMovimientos call: setMovimientos(enriched)
CompleteMovimientos ==
    /\ \E call \in pendingMovimientos :
           /\ pendingMovimientos' = pendingMovimientos \ {call}
           /\ movimientos' = loadedMovimientos(call.rows, call.year)
           /\ movimientosError' = Null
    /\ UNCHANGED <<store, selectedYear, yearlyVars, uiVars, editorCategorias,
                   editorMovimientos, storeCategorias, editVars, pendingYears,
                   pendingYearly>>

\* the response of a loadYearlyMovimientos call:
\* setYearlyMovimientos(enriched)
CompleteYearly ==
    /\ \E rows \in pendingYearly :
           /\ pendingYearly' = pendingYearly \ {rows}
           /\ yearlyMovimientos' = loadedYearly(rows)
    /\ UNCHANGED <<dataVars, yearlyShowVars, yearlySelectVars, uiVars,
                   editorCategorias, editorMovimientos, storeCategorias,
                   editVars,
                   pendingYears, pendingMovimientos>>

\* the page after the first render of book A: the three loaders are called
InitPending ==
    /\ store = LibroA
    /\ InitClient
    /\ storeCategorias = Categorias
    /\ pendingYears = {LibroA}
    /\ pendingMovimientos = {[rows |-> LibroA, year |-> CURRENT_YEAR]}
    /\ pendingYearly = {LibroA}
    /\ NoEdit

NextPending ==
    \/ StartSelectYear
    \/ StartSelectLibro
    \/ CompleteYears
    \/ CompleteMovimientos
    \/ CompleteYearly

SpecPending == InitPending /\ [][NextPending]_vars

\* C29: once no load is in flight the page holds the movements of the
\* selected book and year and the history of the selected book: a response
\* that arrives late never replaces the one of the latest selection.
C29_LatestWins ==
    NoPending =>
        /\ movimientos = loadedMovimientos(store, selectedYear)
        /\ yearlyMovimientos = loadedYearly(store)

\* the history alone: once no loadYearlyMovimientos is in flight the page
\* holds the history of the selected book
C29_LatestYearly ==
    pendingYearly = {} => yearlyMovimientos = loadedYearly(store)

-----------------------------------------------------------------------------
(* Inline edit of the movements editor: a cell under edit, its value, and  *)
(* the update calls awaiting the store.  A handler runs on the state of    *)
(* the latest render: React renders before the next key or focus event.   *)

MaxEditMovs == 2

MaxUpdates == 2

\* a row of the movimientos table with its creation time
CreatedMov(fecha, importe, created) ==
    [fecha |-> fecha, tipo |-> T_ingreso, importe |-> Num(importe),
     detalle |-> T_pan, fijo |-> JsFalse, categoria_id |-> Null,
     creado_en |-> <<created>>]

EditRows == {CreatedMov(F_2024, 7, 1), CreatedMov(F_2024, 5, 3)}

EditableFields == {"fecha", "importe"}

\* what the user may leave in the <input> of a field
EditValues(field) ==
    IF field = "fecha"
    THEN {<<" ">> \o F_2024_03, F_unparseable}
    ELSE {<<" ", "5">>, <<"-", "7">>, <<"x">>}

E_fecha == <<"L", "a", " ", "f", "e", "c", "h", "a">>

E_importe == <<"I", "n", "t", "r", "o", "d", "u", "c", "e">>

E_negativo == <<"E", "l", " ", "i", "m", "p", "o", "r", "t", "e">>

\* parseDateInput: <<>> for null, <<text>> for the trimmed text of a date
parseDateInput(value) ==
    IF IsIsoDate(trim(value)) /\ DigitsValue(SubSeq(trim(value), 1, 4)) >= 100
    THEN <<trim(value)>> ELSE <<>>

\* parseImporteValue over texts of digits with an optional sign: <<>> for
\* null, <<amount>> otherwise
parseImporteValue(value) ==
    LET trimmed == trim(value)
        unsigned == IF trimmed # <<>> /\ trimmed[1] = "-"
                    THEN Tail(trimmed) ELSE trimmed
    IN  IF unsigned # <<>> /\ AllDigits(unsigned)
        THEN (IF trimmed[1] = "-" THEN <<0 - DigitsValue(unsigned)>>
              ELSE <<DigitsValue(unsigned)>>)
        ELSE <<>>

\* cancelEdit
cancelEdit ==
    /\ editingCell' = <<>>
    /\ editingValue' = <<>>
    /\ editError' = Null

\* startEdit: a double click on a cell of the table
StartEdit ==
    /\ ~editSaving
    /\ \E i \in 1..Len(editorMovimientos), field \in EditableFields :
           LET mov == editorMovimientos[i]
           IN  /\ editingCell # <<[id |-> mov.id, field |-> field]>>
               /\ editError' = Null
               /\ editingCell' = <<[id |-> mov.id, field |-> field]>>
               /\ editingValue' =
                      IF field = "fecha" THEN SubSeq(mov.fecha, 1, 10)
                      ELSE IF mov.importe = NoNum THEN <<>>
                      ELSE NumStr(mov.importe[1])
    /\ UNCHANGED <<store, dashboardVars, editorCategorias, editorMovimientos,
                   storeCategorias, pendingYears, pendingMovimientos,
                   pendingYearly, editSaving, pendingUpdates>>

\* onChange of the <input> of the cell, which is disabled while saving
SetEditingValue ==
    /\ editingCell # <<>>
    /\ ~editSaving
    /\ \E value \in EditValues(editingCell[1].field) \ {editingValue} :
           editingValue' = value
    /\ UNCHANGED <<store, dashboardVars, editorCategorias, editorMovimientos,
                   storeCategorias, pendingYears, pendingMovimientos,
                   pendingYearly, editingCell, editSaving, editError,
                   pendingUpdates>>

\* Escape in the <input> of the cell
CancelEdit ==
    /\ editingCell # <<>>
    /\ ~editSaving
    /\ cancelEdit
    /\ UNCHANGED <<store, dashboardVars, editorCategorias, editorMovimientos,
                   storeCategorias, pendingYears, pendingMovimientos,
                   pendingYearly, editSaving, pendingUpdates>>

\* the part of commitEdit that runs before the await, given whether the
\* call returns at once
commitEditWhen(returnsAtOnce) ==
    LET cell == editingCell[1]
        found == \E i \in 1..Len(editorMovimientos) :
                     editorMovimientos[i].id = cell.id
        nextDate == parseDateInput(editingValue)
        importeValue == parseImporteValue(editingValue)
        message ==
            IF cell.field = "fecha"
            THEN (IF nextDate = <<>> THEN E_fecha ELSE Null)
            ELSE IF importeValue = <<>> THEN E_importe
            ELSE IF importeValue[1] < 0 THEN E_negativo
            ELSE Null
        payload == IF cell.field = "fecha" THEN nextDate ELSE importeValue
    IN  IF returnsAtOnce
        THEN UNCHANGED <<editVars, editorMovimientos>>
        ELSE IF ~found
        THEN /\ cancelEdit
             /\ UNCHANGED <<editSaving, pendingUpdates, editorMovimientos>>
        ELSE IF message # Null
        THEN /\ editError' = message
             /\ UNCHANGED <<editingCell, editingValue, editSaving,
                            pendingUpdates, editorMovimientos>>
        ELSE /\ Len(pendingUpdates) < MaxUpdates
             /\ editSaving' = TRUE
             /\ pendingUpdates' =
                    Append(pendingUpdates,
                           [id |-> cell.id, field |-> cell.field,
                            value |-> payload[1]])
             /\ UNCHANGED <<editingCell, editingValue, editError,
                            editorMovimientos>>

\* commitEdit with a fault: it does not return while a save is in flight
CommitEdit_noGuard ==
    /\ editingCell # <<>>
    /\ commitEditWhen(FALSE)
    /\ UNCHANGED <<store, dashboardVars, editorCategorias, storeCategorias,
                   pendingYears, pendingMovimientos, pendingYearly>>

\* commitEdit up to its await: Enter in the <input> of the cell, or its blur
CommitEdit ==
    /\ editingCell # <<>>
    /\ commitEditWhen(editSaving)
    /\ UNCHANGED <<store, dashboardVars, editorCategorias, storeCategorias,
                   pendingYears, pendingMovimientos, pendingYearly>>

\* the row of the store an update call names, changed as the call asks
updatedStore(call) ==
    LET i == CHOOSE k \in 1..Len(store) : RowId(k) = call.id
    IN  IF call.field = "fecha"
        THEN [store EXCEPT ![i].fecha = call.value]
        ELSE [store EXCEPT ![i].importe = Num(call.value)]

\* the rest of commitEdit: the store answers the oldest update call, with
\* an error or with the stored row
CompleteUpdate ==
    /\ pendingUpdates # <<>>
    /\ pendingUpdates' = Tail(pendingUpdates)
    /\ editSaving' = FALSE
    /\ \/ /\ editError' = T_error
          /\ UNCHANGED <<store, editorMovimientos, editingCell, editingValue>>
       \/ LET call == Head(pendingUpdates)
              stored == enriched_editor(updatedStore(call), editorCategorias)
              enriched == stored[CHOOSE k \in 1..Len(stored) :
                                     stored[k].id = call.id]
          IN  /\ store' = updatedStore(call)
              /\ editorMovimientos' =
                     sortMovimientos(
                         [k \in 1..Len(editorMovimientos) |->
                            IF editorMovimientos[k].id = call.id
                            THEN enriched ELSE editorMovimientos[k]])
              /\ cancelEdit
    /\ UNCHANGED <<dashboardVars, editorCategorias, storeCategorias,
                   pendingYears, pendingMovimientos, pendingYearly>>

\* the rows of a book, each stored once
InitEdit ==
    /\ store \in BoundedSeq(EditRows, MaxEditMovs)
    /\ \A j, k \in 1..Len(store) : j # k => store[j] # store[k]
    /\ InitState

NextEdit ==
    \/ LoadMovimientos_editor
    \/ StartEdit
    \/ SetEditingValue
    \/ CancelEdit
    \/ CommitEdit
    \/ CompleteUpdate

SpecEdit == InitEdit /\ [][NextEdit]_vars

\* the messages of the validations of commitEdit
ValidationMessages == {E_fecha, E_importe, E_negativo}

\* the values among EditValues that are no date, no amount, or a negative one
InvalidValues == {F_unparseable, <<"x">>, <<"-", "7">>}

\* the list is in descending order of date and, within a date, of creation
\* time
EditorOrdered(list) ==
    \A j, k \in 1..Len(list) :
        j < k =>
            \/ TimeOf(list[j].fecha) > TimeOf(list[k].fecha)
            \/ /\ TimeOf(list[j].fecha) = TimeOf(list[k].fecha)
               /\ createdTime(list[j]) >= createdTime(list[k])

\* at most one update call awaits the store, and it carries a valid value;
\* a validation message is shown next to a cell that is still under edit
SaveInvariant ==
    /\ Len(pendingUpdates) <= 1
    /\ editSaving <=> pendingUpdates # <<>>
    /\ \A p \in 1..Len(pendingUpdates) :
           IF pendingUpdates[p].field = "fecha"
           THEN DateParse(pendingUpdates[p].value) # <<>>
           ELSE pendingUpdates[p].value >= 0
    /\ editError \in ValidationMessages => editingCell # <<>>
    /\ EditorOrdered(editorMovimientos)

\* a commit while a save is awaited, or of a value that fails validation,
\* sends nothing and leaves the list and the cell as they are; the failed
\* validation shows its message
IdleCommitStep ==
    /\ CommitEdit /\ editSaving => UNCHANGED vars
    /\ CommitEdit /\ ~editSaving /\ editingValue \in InvalidValues
           /\ (\E i \in 1..Len(editorMovimientos) :
                   editorMovimientos[i].id = editingCell[1].id)
           => /\ UNCHANGED <<pendingUpdates, editorMovimientos, editingCell,
                             editingValue, editSaving, store>>
              /\ editError' \in ValidationMessages

\* the step in which the store answers an update call with the stored row
SavedStep == editSaving /\ ~editSaving' /\ editError' = Null

\* the edited row was in the list when the answer arrived
TargetListed ==
    \E k \in 1..Len(editorMovimientos) :
        editorMovimientos[k].id = Head(pendingUpdates).id

\* after the step the list holds the row as the store now has it
StoredRowListed ==
    LET call == Head(pendingUpdates)
        i == CHOOSE k \in 1..Len(store) : RowId(k) = call.id
    IN  /\ IF call.field = "fecha" THEN store'[i].fecha = call.value
           ELSE store'[i].importe = Num(call.value)
        /\ \E j \in 1..Len(editorMovimientos') :
               /\ editorMovimientos'[j].id = call.id
               /\ editorMovimientos'[j].fecha = store'[i].fecha
               /\ editorMovimientos'[j].importe = store'[i].importe
               /\ editorMovimientos'[j].creado_en = store'[i].creado_en

\* C30: at most one inline-edit save is in flight, a commit while one is
\* awaited sends no second update; a commit that fails validation sends
\* nothing, leaves the list as it is and keeps the cell under edit with a
\* message; and after a successful commit the list is ordered by date and
\* creation time, both descending, and holds the stored row in place of the
\* edited one if that row was still in the list when the answer arrived.
C30_SingleSave ==
    /\ []SaveInvariant
    /\ [][/\ IdleCommitStep
          /\ SavedStep =>
                 /\ EditorOrdered(editorMovimientos')
                 /\ TargetListed => StoredRowListed]_vars

\* the same with the last part as the claim states it: after a successful
\* commit the list holds the stored row
C30_AsStated ==
    /\ []SaveInvariant
    /\ [][/\ IdleCommitStep
          /\ SavedStep =>
                 /\ EditorOrdered(editorMovimientos')
                 /\ StoredRowListed]_vars

\* the first row had its fecha edited to a later day and was saved: it now
\* heads the list, before the row that was created after it
C30_Witness ==
    /\ Len(editorMovimientos) = 2
    /\ editorMovimientos[1].fecha = F_2024_03
    /\ editorMovimientos[1].creado_en = <<1>>
    /\ editorMovimientos[2].creado_en = <<3>>
    /\ store[1].fecha = F_2024_03
    /\ ~editSaving
    /\ editingCell = <<>>

\* a save awaited while the cell is still under edit, its <input> disabled
C30_WitnessSaving ==
    /\ editSaving
    /\ Len(pendingUpdates) = 1
    /\ editingCell # <<>>

\* a validation message next to the cell under edit
C30_WitnessInvalid ==
    /\ editError = E_negativo
    /\ editingCell # <<>>
    /\ editingValue = <<"-", "7">>
    /\ ~editSaving

====
